---- MODULE Spec2Model ----
(***************************************************************************)
(* The render pass of rust_browser: css::parse, style::style_tree,         *)
(* layout::layout_tree and painter::render_layout_box_tree, as main.rs     *)
(* runs them one after the other.                                          *)
(*                                                                         *)
(* Conventions of the model:                                               *)
(*  - Option<T> is a sequence of length 0 (None) or 1 (Some(x)), which is  *)
(*    what Option::iter() walks over in the source;                        *)
(*  - a reference (&Node, &StyledNode, &Rule) is the position of its       *)
(*    target: a path of 1-based child indices from the root of the tree,   *)
(*    or an index into stylesheet.rules;                                   *)
(*  - a HashMap is a function whose DOMAIN is the set of inserted keys;    *)
(*  - a String that is split or measured is a sequence of characters, a    *)
(*    String that is only compared is a TLA+ string;                       *)
(*  - f64 numbers are integers where every number of the pass is whole     *)
(*    and small, and binary64 numbers, rounded as the machine rounds them, *)
(*    where the stylesheet has lengths with a fraction (see f64).          *)
(***************************************************************************)
EXTENDS Integers, Sequences, FiniteSets, TLC

VARIABLES
    pc,            \* position of main() in the pipeline
    css_source,    \* the stylesheet as written: rules with their selectors in written order
    html_tree,     \* dom::Node, the document tree
    viewport,      \* layout::Dimensions of the initial containing block
    stylesheet,    \* css::Stylesheet returned by css::parse
    styled_root,   \* style::StyledNode returned by style_tree
    root_box,      \* layout::LayoutBox returned by layout_tree
    display_list,  \* painter::DisplayList
    numbers        \* how the f64 of the pass are computed: "whole" or "binary64"

vars ==
    <<pc, css_source, html_tree, viewport, stylesheet, styled_root, root_box, display_list,
      numbers>>

(***************************************************************************)
(* Generic helpers                                                         *)
(***************************************************************************)
None == <<>>

Some(x) == <<x>>

unwrap_or(opt, default) == IF opt = None THEN default ELSE opt[1]

\* Vec::sort_by / slice::sort_by: a stable sort. less[i][j] is the comparison
\* of s[i] with s[j]; the element at index i goes after every element that is
\* less and after every equal element before it.
sort_by(s, less) ==
    LET n == Len(s)
        pos(i) == Cardinality({j \in 1..n : less[j][i]})
                  + Cardinality({j \in 1..(i - 1) : ~less[i][j] /\ ~less[j][i]})
                  + 1
    IN  [k \in 1..n |-> s[CHOOSE i \in 1..n : pos(i) = k]]

RECURSIVE SumSeq(_)
SumSeq(s) == IF s = <<>> THEN 0 ELSE Head(s) + SumSeq(Tail(s))

RECURSIVE Flatten(_)
Flatten(ss) == IF ss = <<>> THEN <<>> ELSE Head(ss) \o Flatten(Tail(ss))

\* the element a path refers to, in a tree of records with a children field
RECURSIVE NodeAt(_, _)
NodeAt(tree, path) ==
    IF path = <<>> THEN tree ELSE NodeAt(tree.children[Head(path)], Tail(path))

\* every path of a tree, the root's first (pre-order)
RECURSIVE Paths(_)
Paths(tree) ==
    {<<>>} \cup UNION {{<<i>> \o p : p \in Paths(tree.children[i])} : i \in DOMAIN tree.children}

(***************************************************************************)
(* f64. A pass whose numbers are all whole and small is computed on the    *)
(* integers, where f64 adds, subtracts and multiplies exactly (numbers =   *)
(* "whole"). Otherwise a number is its binary64 value (numbers =           *)
(* "binary64"): the sign, the bits of the odd whole number m, the highest  *)
(* first, and the exponent e of the value m * 2^e; 0 has no bits. Every    *)
(* operation rounds its exact result to MANTISSA_DIGITS bits, to the       *)
(* nearest, a tie to the even one. Subnormal numbers, infinities and the   *)
(* sign of 0 are out of the model.                                         *)
(***************************************************************************)
MANTISSA_DIGITS == 53

Zeros(n) == [i \in 1..n |-> 0]

\* the bits of a natural number, the highest first and a 1: 0 has none
Binary(n) ==
    <<>> \o [i \in 1..Cardinality({k \in 0..30 : 2^k <= n}) |->
                (n \div 2^(Cardinality({k \in 0..30 : 2^k <= n}) - i)) % 2]

PadLeft(bits, n) == Zeros(n - Len(bits)) \o bits

\* bits without the zeros they start with
Trim(bits) == SubSeq(bits, Cardinality({i \in DOMAIN bits : \A j \in 1..i : bits[j] = 0}) + 1,
                     Len(bits))

\* a + b has a carry into place i: a place below i makes one, and every place
\* between passes it on
CarryInto(a, b, i) ==
    \E j \in (i + 1)..Len(a) :
        a[j] + b[j] = 2 /\ \A k \in (i + 1)..(j - 1) : a[k] + b[k] = 1

\* a - b has a borrow from place i
BorrowFrom(a, b, i) ==
    \E j \in (i + 1)..Len(a) :
        a[j] < b[j] /\ \A k \in (i + 1)..(j - 1) : a[k] = b[k]

\* a + b for bits a and b that are as long and start with 0
AddCarry(a, b) ==
    <<>> \o [i \in DOMAIN a |-> (a[i] + b[i] + IF CarryInto(a, b, i) THEN 1 ELSE 0) % 2]

\* a - b for bits a >= b that are as long
SubBorrow(a, b) ==
    <<>> \o [i \in DOMAIN a |-> (a[i] - b[i] - (IF BorrowFrom(a, b, i) THEN 1 ELSE 0) + 2) % 2]

Longer(a, b) == IF Len(a) > Len(b) THEN Len(a) ELSE Len(b)

\* a + b
PlusBits(a, b) ==
    IF a = <<>> THEN b
    ELSE IF b = <<>> THEN a
    ELSE Trim(AddCarry(PadLeft(a, Longer(a, b) + 1), PadLeft(b, Longer(a, b) + 1)))

\* a - b, for a >= b
MinusBits(a, b) ==
    IF b = <<>> THEN a
    ELSE Trim(SubBorrow(PadLeft(a, Longer(a, b)), PadLeft(b, Longer(a, b))))

\* a < b
LessBits(a, b) == BorrowFrom(PadLeft(a, Longer(a, b)), PadLeft(b, Longer(a, b)), 0)

\* a * b, by halves of b
RECURSIVE TimesBits(_, _)
TimesBits(a, b) ==
    IF a = <<>> \/ b = <<>> THEN <<>>
    ELSE IF Len(b) = 1 THEN (IF b[1] = 1 THEN a ELSE <<>>)
    ELSE PlusBits(TimesBits(a, Trim(SubSeq(b, 1, Len(b) \div 2)))
                      \o Zeros(Len(b) - Len(b) \div 2),
                  TimesBits(a, Trim(SubSeq(b, Len(b) \div 2 + 1, Len(b)))))

Zero64 == [neg |-> FALSE, bits |-> <<>>, exp |-> 0]

\* the number of 0 bits that end bits
TrailingZeros(bits) ==
    Cardinality({i \in DOMAIN bits : \A j \in i..Len(bits) : bits[j] = 0})

\* the binary64 number (-1)^neg * bits * 2^exp, for bits of at most MANTISSA_DIGITS
\* digits after the zeros that end them
Exact64(neg, bits, exp) ==
    IF bits = <<>> THEN Zero64
    ELSE [neg |-> neg, bits |-> SubSeq(bits, 1, Len(bits) - TrailingZeros(bits)),
          exp |-> exp + TrailingZeros(bits)]

\* the first MANTISSA_DIGITS digits of bits, rounded to nearest by the digits
\* that follow, ties to even
Nearest(bits) ==
    IF Len(bits) <= MANTISSA_DIGITS THEN bits
    ELSE IF /\ bits[MANTISSA_DIGITS + 1] = 1
            /\ \/ bits[MANTISSA_DIGITS] = 1
               \/ \E i \in (MANTISSA_DIGITS + 2)..Len(bits) : bits[i] = 1
    THEN PlusBits(SubSeq(bits, 1, MANTISSA_DIGITS), <<1>>)
    ELSE SubSeq(bits, 1, MANTISSA_DIGITS)

\* the binary64 number nearest to (-1)^neg * bits * 2^exp
Round64(neg, bits, exp) ==
    Exact64(neg, Nearest(Trim(bits)),
            IF Len(Trim(bits)) > MANTISSA_DIGITS
            THEN exp + (Len(Trim(bits)) - MANTISSA_DIGITS) ELSE exp)

\* x + y in binary64
Add64(x, y) ==
    LET e == IF x.exp < y.exp THEN x.exp ELSE y.exp
        a == x.bits \o Zeros(x.exp - e)
        b == y.bits \o Zeros(y.exp - e)
    IN  IF x.bits = <<>> THEN y
        ELSE IF y.bits = <<>> THEN x
        ELSE Round64(IF x.neg # y.neg /\ LessBits(a, b) THEN y.neg ELSE x.neg,
                     IF x.neg = y.neg THEN PlusBits(a, b)
                     ELSE IF LessBits(a, b) THEN MinusBits(b, a) ELSE MinusBits(a, b),
                     e)

\* -x
Neg64(x) == IF x.bits = <<>> THEN x ELSE [x EXCEPT !.neg = ~@]

\* x * y in binary64
Mul64(x, y) ==
    IF x.bits = <<>> \/ y.bits = <<>> THEN Zero64
    ELSE Round64(x.neg # y.neg, TimesBits(x.bits, y.bits), x.exp + y.exp)

\* the whole number n as an f64 of the pass
f64(n) ==
    IF numbers = "whole" THEN n
    ELSE Exact64(n < 0, Binary(IF n < 0 THEN 0 - n ELSE n), 0)

\* f64 + f64
add(a, b) == IF numbers = "whole" THEN a + b ELSE Add64(a, b)

\* f64 - f64
sub(a, b) == IF numbers = "whole" THEN a - b ELSE Add64(a, Neg64(b))

\* f64 * f64
mul(a, b) == IF numbers = "whole" THEN a * b ELSE Mul64(a, b)

\* f64 < f64
lt(a, b) == IF numbers = "whole" THEN a < b ELSE Add64(a, Neg64(b)).neg

\* f64 > f64
gt(a, b) == lt(b, a)

\* Iterator::sum of f64: every number added in turn
RECURSIVE sum(_)
sum(values) ==
    IF values = <<>> THEN f64(0)
    ELSE add(sum(SubSeq(values, 1, Len(values) - 1)), values[Len(values)])

(***************************************************************************)
(* css.rs                                                                  *)
(***************************************************************************)
Px == "Px"

Keyword(s) == [kind |-> "Keyword", s |-> s]

Length(f, unit) == [kind |-> "Length", f |-> f, unit |-> unit]

Color(r, g, b, a) == [kind |-> "Color", r |-> r, g |-> g, b |-> b, a |-> a]

to_px(value) == IF value.kind = "Length" /\ value.unit = Px THEN value.f ELSE f64(0)

SimpleSelector(tag_name, id, class) == [tag_name |-> tag_name, id |-> id, class |-> class]

Declaration(name, value) == [name |-> name, value |-> value]

Rule(selectors, declarations) == [selectors |-> selectors, declarations |-> declarations]

\* Selector::specificity
specificity(selector) == <<Len(selector.id), Len(selector.class), Len(selector.tag_name)>>

\* Ord for (usize, usize, usize): lexicographic
SpecificityLess(x, y) ==
    \/ x[1] < y[1]
    \/ x[1] = y[1] /\ x[2] < y[2]
    \/ x[1] = y[1] /\ x[2] = y[2] /\ x[3] < y[3]

HigherSpecificityFirst(a, b) == SpecificityLess(specificity(b), specificity(a))

\* a bug parse_selectors could have: the selectors are left in written order
parse_selectors_unsorted(written) == written

\* Parser::parse_selectors, after the selectors are read: sorted, highest specificity first
parse_selectors(written) ==
    sort_by(written, [i \in DOMAIN written |-> [j \in DOMAIN written |->
                         HigherSpecificityFirst(written[i], written[j])]])

\* Parser::parse_rule
parse_rule(written) == Rule(parse_selectors(written.selectors), written.declarations)

\* css::parse / Parser::parse_rules: one Rule per written rule, in source order
parse(source) == [rules |-> [i \in DOMAIN source |-> parse_rule(source[i])]]

(***************************************************************************)
(* css.rs, the Parser: the text of a stylesheet is a sequence of            *)
(* characters, all of them ASCII, so that a position in bytes is a position *)
(* in characters. An operation of the Parser returns the Parser after it    *)
(* (self) and its result (out); a panic is recorded in self and ends every  *)
(* loop.                                                                   *)
(***************************************************************************)
Digits == <<"0", "1", "2", "3", "4", "5", "6", "7", "8", "9">>

LowerLetters ==
    <<"a", "b", "c", "d", "e", "f", "g", "h", "i", "j", "k", "l", "m",
      "n", "o", "p", "q", "r", "s", "t", "u", "v", "w", "x", "y", "z">>

UpperLetters ==
    <<"A", "B", "C", "D", "E", "F", "G", "H", "I", "J", "K", "L", "M",
      "N", "O", "P", "Q", "R", "S", "T", "U", "V", "W", "X", "Y", "Z">>

Range(s) == {s[i] : i \in DOMAIN s}

\* char::is_alphanumeric, on ASCII
is_alphanumeric == Range(Digits) \cup Range(LowerLetters) \cup Range(UpperLetters)

\* char::is_whitespace, on ASCII: space, tab, line feed, vertical tab (U+000B,
\* written as the character itself), form feed and carriage return
is_whitespace == {" ", "\t", "\n", "", "\f", "\r"}

\* valid_ident_char
valid_ident_char == is_alphanumeric \cup {"-", "_"}

\* a String that is only compared, from its characters
RECURSIVE String(_)
String(chars) == IF chars = <<>> THEN "" ELSE Head(chars) \o String(Tail(chars))

\* str::to_ascii_lowercase
to_ascii_lowercase(chars) ==
    [i \in DOMAIN chars |->
        IF chars[i] \in Range(UpperLetters)
        THEN LowerLetters[CHOOSE k \in DOMAIN UpperLetters : UpperLetters[k] = chars[i]]
        ELSE chars[i]]

\* Parser { pos: 0, input: source }
Parser(source) == [pos |-> 0, input |-> source, panic |-> None]

\* panic!, a failed assert_eq! or unwrap: the first one is the one that ends the parse
Abort(self, message) == IF self.panic # None THEN self ELSE [self EXCEPT !.panic = Some(message)]

\* Parser::eof
eof(self) == self.pos >= Len(self.input)

\* Parser::next_char, where there is one
next_char(self) == self.input[self.pos + 1]

\* Parser::consume_char
consume_char(self) ==
    IF eof(self)
    THEN [self |-> Abort(self, "unwrap on None"), out |-> ""]
    ELSE [self |-> [self EXCEPT !.pos = @ + 1], out |-> next_char(self)]

\* assert_eq!(self.consume_char(), c)
expect_char(self, c) ==
    LET read == consume_char(self)
    IN  IF read.out = c THEN read.self ELSE Abort(read.self, "assertion failed")

\* Parser::consume_while; test is the set of the characters the closure accepts
consume_while(self, test) ==
    LET n == Len(self.input)
        stops == {k \in (self.pos + 1)..n : self.input[k] \notin test}
        stop == IF stops = {} THEN n + 1 ELSE CHOOSE k \in stops : \A j \in stops : k <= j
    IN  [self |-> [self EXCEPT !.pos = stop - 1],
         out |-> SubSeq(self.input, self.pos + 1, stop - 1)]

\* Parser::consume_whitespace
consume_whitespace(self) == consume_while(self, is_whitespace).self

\* Parser::parse_identifier
parse_identifier(self) == consume_while(self, valid_ident_char)

\* the value of a digit in base 16
HexValue(c) ==
    IF c \in Range(Digits) THEN (CHOOSE k \in DOMAIN Digits : Digits[k] = c) - 1
    ELSE IF c \in Range(LowerLetters)
    THEN (CHOOSE k \in DOMAIN LowerLetters : LowerLetters[k] = c) + 9
    ELSE (CHOOSE k \in DOMAIN UpperLetters : UpperLetters[k] = c) + 9

HexDigits == Range(Digits) \cup Range(SubSeq(LowerLetters, 1, 6)) \cup Range(SubSeq(UpperLetters, 1, 6))

\* u8::from_str_radix(s, 16) of two characters: two digits, or a plus sign and a digit
from_str_radix(a, b) ==
    IF a \in HexDigits /\ b \in HexDigits THEN Some(16 * HexValue(a) + HexValue(b))
    ELSE IF a = "+" /\ b \in HexDigits THEN Some(HexValue(b))
    ELSE None

\* Parser::parse_hex_pair
parse_hex_pair(self) ==
    IF self.pos + 2 > Len(self.input)
    THEN [self |-> Abort(self, "byte index out of bounds"), out |-> 0]
    ELSE LET parsed == from_str_radix(self.input[self.pos + 1], self.input[self.pos + 2])
             moved == [self EXCEPT !.pos = @ + 2]
         IN  IF parsed = None
             THEN [self |-> Abort(moved, "unwrap on Err"), out |-> 0]
             ELSE [self |-> moved, out |-> parsed[1]]

\* a bug parse_color could have: the pairs are read in the order of the fields of Color
parse_color_field_order(self) ==
    LET color(r, b, g) == [self |-> g.self, out |-> Color(r.out, g.out, b.out, 255)]
        third(r, b) == color(r, b, parse_hex_pair(b.self))
        second(r) == third(r, parse_hex_pair(r.self))
    IN  second(parse_hex_pair(expect_char(self, "#")))

\* Parser::parse_color
parse_color(self) ==
    LET color(r, g, b) == [self |-> b.self, out |-> Color(r.out, g.out, b.out, 255)]
        third(r, g) == color(r, g, parse_hex_pair(g.self))
        second(r) == third(r, parse_hex_pair(r.self))
    IN  second(parse_hex_pair(expect_char(self, "#")))

\* the number a string of decimal digits stands for
RECURSIVE DecimalValue(_)
DecimalValue(digits) ==
    IF digits = <<>> THEN 0
    ELSE 10 * DecimalValue(SubSeq(digits, 1, Len(digits) - 1)) + HexValue(digits[Len(digits)])

\* the bits of 10^n, by halves of n
RECURSIVE PowerOfTen(_)
PowerOfTen(n) ==
    IF n = 0 THEN <<1>>
    ELSE IF n = 1 THEN Binary(10)
    ELSE TimesBits(PowerOfTen(n \div 2), PowerOfTen(n - n \div 2))

\* the bits of the number a string of decimal digits stands for, by halves
RECURSIVE DecimalBits(_)
DecimalBits(digits) ==
    LET n == Len(digits)
        h == Len(digits) \div 2
    IN  IF n = 0 THEN <<>>
        ELSE IF n = 1 THEN Binary(HexValue(digits[1]))
        ELSE PlusBits(TimesBits(DecimalBits(SubSeq(digits, 1, h)), PowerOfTen(n - h)),
                      DecimalBits(SubSeq(digits, h + 1, n)))

\* r * 2^Len(bits) + bits divided by d, by halves, the upper half first: the
\* quotient, as long as bits, and the remainder
RECURSIVE DivideBits(_, _, _)
DivideBits(bits, d, r) ==
    LET n == Len(bits)
        h == Len(bits) \div 2
        join(high, low) == [q |-> high.q \o low.q, r |-> low.r]
        lower(high) == join(high, DivideBits(SubSeq(bits, h + 1, n), d, high.r))
        bit(r1) == IF LessBits(r1, d) THEN [q |-> <<0>>, r |-> r1]
                   ELSE [q |-> <<1>>, r |-> MinusBits(r1, d)]
    IN  IF n = 0 THEN [q |-> <<>>, r |-> r]
        ELSE IF n = 1 THEN bit(Trim(Append(r, bits[1])))
        ELSE lower(DivideBits(SubSeq(bits, 1, h), d, r))

\* str::parse::<f64> of digits, of which the last `places` follow the point: the
\* binary64 number nearest to digits / 10^places. The quotient is taken to more
\* than MANTISSA_DIGITS + 2 bits, and a last bit says whether anything is left
Decimal64(digits, places) ==
    LET d == PowerOfTen(places)
        more == Len(d) + MANTISSA_DIGITS + 2
        rounded(division) ==
            Round64(FALSE,
                    Append(division.q, IF division.r = <<>> THEN 0 ELSE 1),
                    0 - (more + 1))
    IN  rounded(DivideBits(DecimalBits(digits) \o Zeros(more), d, <<>>))

\* Parser::parse_float: str::parse::<f64> of the digits and points read. On the
\* integers a whole number is its value, and a number with a fraction that is
\* not 0 keeps the fraction as written
parse_float(self) ==
    LET parsed(f) ==
            LET points == {k \in DOMAIN f.out : f.out[k] = "."}
                k == CHOOSE i \in points : TRUE
                whole == SubSeq(f.out, 1, k - 1)
                fraction == SubSeq(f.out, k + 1, Len(f.out))
            IN  IF points = {} /\ f.out # <<>>
                THEN [self |-> f.self,
                      out |-> IF numbers = "whole" THEN DecimalValue(f.out)
                              ELSE Decimal64(f.out, 0)]
                ELSE IF Cardinality(points) # 1 \/ Len(f.out) = 1
                THEN [self |-> Abort(f.self, "unwrap on Err"), out |-> f64(0)]
                ELSE IF numbers = "binary64"
                THEN [self |-> f.self, out |-> Decimal64(whole \o fraction, Len(fraction))]
                ELSE IF \A i \in DOMAIN fraction : fraction[i] = "0"
                THEN [self |-> f.self, out |-> DecimalValue(whole)]
                ELSE [self |-> f.self,
                      out |-> [whole |-> DecimalValue(whole), fraction |-> fraction]]
    IN  parsed(consume_while(self, Range(Digits) \cup {"."}))

\* Parser::parse_unit
parse_unit(self) ==
    LET matched(unit) ==
            IF to_ascii_lowercase(unit.out) = <<"p", "x">>
            THEN [self |-> unit.self, out |-> Px]
            ELSE [self |-> Abort(unit.self, "unrecognized unit"), out |-> Px]
    IN  matched(parse_identifier(self))

\* Parser::parse_length
parse_length(self) ==
    LET length(f, unit) == [self |-> unit.self, out |-> Length(f.out, unit.out)]
        with_unit(f) == length(f, parse_unit(f.self))
    IN  with_unit(parse_float(self))

\* Parser::parse_value
parse_value(self) ==
    IF eof(self)
    THEN [self |-> Abort(self, "unwrap on None"), out |-> Keyword("")]
    ELSE IF next_char(self) \in Range(Digits) THEN parse_length(self)
    ELSE IF next_char(self) = "#" THEN parse_color(self)
    ELSE LET keyword(word) == [self |-> word.self, out |-> Keyword(String(word.out))]
         IN  keyword(parse_identifier(self))

\* Parser::parse_declaration
parse_declaration(self) ==
    LET declaration(name, val) ==
            [self |-> expect_char(consume_whitespace(val.self), ";"),
             out |-> Declaration(String(name.out), val.out)]
        colon(name) == expect_char(consume_whitespace(name.self), ":")
        with_value(name) == declaration(name, parse_value(consume_whitespace(colon(name))))
    IN  with_value(parse_identifier(self))

\* the loop of Parser::parse_declarations
RECURSIVE declarations_loop(_, _)
declarations_loop(self, declarations) ==
    LET push(declaration) ==
            declarations_loop(declaration.self, Append(declarations, declaration.out))
        at(here) ==
            IF here.panic # None THEN [self |-> here, out |-> declarations]
            ELSE IF eof(here)
            THEN [self |-> Abort(here, "unwrap on None"),
                  out |-> declarations]
            ELSE IF next_char(here) = "}"
            THEN [self |-> consume_char(here).self, out |-> declarations]
            ELSE push(parse_declaration(here))
    IN  at(consume_whitespace(self))

\* Parser::parse_declarations
parse_declarations(self) == declarations_loop(expect_char(self, "{"), <<>>)

\* the loop of Parser::parse_simple_selector
RECURSIVE simple_selector_loop(_, _)
simple_selector_loop(self, selector) ==
    LET with_id(name) ==
            simple_selector_loop(name.self, [selector EXCEPT !.id = Some(name.out)])
        with_class(name) ==
            simple_selector_loop(name.self, [selector EXCEPT !.class = Append(@, name.out)])
        with_tag_name(name) ==
            simple_selector_loop(name.self, [selector EXCEPT !.tag_name = Some(String(name.out))])
    IN  IF eof(self) THEN [self |-> self, out |-> selector]
        ELSE IF next_char(self) = "#" THEN with_id(parse_identifier(consume_char(self).self))
        ELSE IF next_char(self) = "." THEN with_class(parse_identifier(consume_char(self).self))
        ELSE IF next_char(self) = "*" THEN simple_selector_loop(consume_char(self).self, selector)
        ELSE IF next_char(self) \in valid_ident_char THEN with_tag_name(parse_identifier(self))
        ELSE [self |-> self, out |-> selector]

\* Parser::parse_simple_selector
parse_simple_selector(self) == simple_selector_loop(self, SimpleSelector(None, None, <<>>))

\* the loop of Parser::parse_selectors: the selectors in written order
RECURSIVE read_selectors_loop(_, _)
read_selectors_loop(self, selectors) ==
    LET at(here, pushed) ==
            IF eof(here)
            THEN [self |-> Abort(here, "unwrap on None"), out |-> pushed]
            ELSE IF next_char(here) = ","
            THEN read_selectors_loop(consume_whitespace(consume_char(here).self), pushed)
            ELSE IF next_char(here) = "{" THEN [self |-> here, out |-> pushed]
            ELSE [self |-> Abort(here, "Unexpected character in selector list"), out |-> pushed]
        push(selector) == at(consume_whitespace(selector.self), Append(selectors, selector.out))
    IN  push(parse_simple_selector(self))

\* Parser::parse_selectors before the sort
read_selectors(self) == read_selectors_loop(self, <<>>)

\* the text of a rule as Parser::parse_rule reads it: the selectors in written
\* order, which parse_rule sorts, and the declarations
read_rule(self) ==
    LET rule(selectors, declarations) ==
            [self |-> declarations.self,
             out |-> [selectors |-> selectors.out, declarations |-> declarations.out]]
        with_declarations(selectors) ==
            rule(selectors, IF selectors.self.panic # None
                            THEN [self |-> selectors.self, out |-> <<>>]
                            ELSE parse_declarations(selectors.self))
    IN  with_declarations(read_selectors(self))

\* the loop of Parser::parse_rules
RECURSIVE read_rules(_, _)
read_rules(self, rules) ==
    LET push(rule) == read_rules(rule.self, Append(rules, rule.out))
        at(here) ==
            IF here.panic # None \/ eof(here) THEN [self |-> here, out |-> rules]
            ELSE push(read_rule(here))
    IN  at(consume_whitespace(self))

\* css::parse of the text of a stylesheet
parse_source(source) ==
    LET parsed(read) ==
            IF read.self.panic # None THEN [panic |-> read.self.panic[1]] ELSE parse(read.out)
    IN  parsed(read_rules(Parser(source), <<>>))

(***************************************************************************)
(* dom.rs                                                                  *)
(***************************************************************************)
Text(body) == [data |-> [type |-> "Text", body |-> body], children |-> <<>>]

Elem(name, attrs, children) ==
    [data |-> [type |-> "Element", tag_name |-> name, attrs |-> attrs], children |-> children]

NoAttrs == [k \in {} |-> <<>>]

\* HashMap::get
get(map, key) == IF key \in DOMAIN map THEN Some(map[key]) ELSE None

\* ElementData::id
id(elem) == get(elem.attrs, "id")

\* str::split(' '): the pieces between the separators, empty pieces included
RECURSIVE split(_, _)
split(s, sep) ==
    IF \A i \in DOMAIN s : s[i] # sep
    THEN <<s>>
    ELSE LET k == CHOOSE i \in DOMAIN s : s[i] = sep /\ \A j \in 1..(i - 1) : s[j] # sep
         IN  <<SubSeq(s, 1, k - 1)>> \o split(SubSeq(s, k + 1, Len(s)), sep)

\* ElementData::classes
classes(elem) ==
    LET attr == get(elem.attrs, "class")
    IN  IF attr = None THEN {}
        ELSE LET pieces == split(attr[1], " ") IN {pieces[i] : i \in DOMAIN pieces}

(***************************************************************************)
(* style.rs                                                                *)
(***************************************************************************)
EmptyMap == [k \in {} |-> None]

\* HashMap::insert
insert(map, key, value) ==
    [k \in DOMAIN map \cup {key} |-> IF k = key THEN value ELSE map[k]]

\* match_simple_selector
match_simple_selector(elem, simple_selector) ==
    IF \E i \in DOMAIN simple_selector.tag_name : elem.tag_name # simple_selector.tag_name[i]
    THEN FALSE
    ELSE IF \E i \in DOMAIN simple_selector.id : id(elem) # Some(simple_selector.id[i])
    THEN FALSE
    ELSE IF \E i \in DOMAIN simple_selector.class : simple_selector.class[i] \notin classes(elem)
    THEN FALSE
    ELSE TRUE

\* matches
matches(elem, selector) == match_simple_selector(elem, selector)

\* match_rule: the first selector of the rule that matches gives the rank;
\* the rule is returned as its index in the stylesheet
match_rule(elem, rules, r) ==
    LET selectors == rules[r].selectors
        found == {i \in DOMAIN selectors : matches(elem, selectors[i])}
    IN  IF found = {} THEN None
        ELSE LET first == CHOOSE i \in found : \A j \in found : i <= j
             IN  Some(<<specificity(selectors[first]), r>>)

\* matching_rules: filter_map of match_rule over the rules, in stylesheet order
matching_rules(elem, sheet) ==
    Flatten([r \in DOMAIN sheet.rules |-> match_rule(elem, sheet.rules, r)])

MatchedRuleLess(x, y) == SpecificityLess(x[1], y[1])

\* the (rule, declaration) positions in the order specified_values inserts them
declarations_of(rules, matched) ==
    Flatten([k \in DOMAIN matched |->
        [j \in DOMAIN rules[matched[k][2]].declarations |-> <<matched[k][2], j>>]])

RECURSIVE insert_all(_, _, _)
insert_all(values, rules, applied) ==
    IF applied = <<>> THEN values
    ELSE LET declaration == rules[Head(applied)[1]].declarations[Head(applied)[2]]
         IN  insert_all(insert(values, declaration.name, declaration.value), rules, Tail(applied))

\* the declarations specified_values applies, in order: the matched rules in
\* ascending specificity, each rule's declarations in written order
applied_declarations(elem, sheet) ==
    LET rules == matching_rules(elem, sheet)
    IN  declarations_of(sheet.rules,
            sort_by(rules, [i \in DOMAIN rules |-> [j \in DOMAIN rules |->
                               MatchedRuleLess(rules[i], rules[j])]]))

\* a bug specified_values could have: the matched rules are not sorted
specified_values_unsorted(elem, sheet) ==
    insert_all(EmptyMap, sheet.rules, declarations_of(sheet.rules, matching_rules(elem, sheet)))

\* specified_values
specified_values(elem, sheet) ==
    insert_all(EmptyMap, sheet.rules, applied_declarations(elem, sheet))

\* a bug style_tree could have: the children that are not displayed are left out
RECURSIVE style_tree_pruned(_, _, _)
style_tree_pruned(html, root, sheet) ==
    LET node == NodeAt(html, root)
        kept == SelectSeq([i \in DOMAIN node.children |-> style_tree_pruned(html, root \o <<i>>, sheet)],
                          LAMBDA c : ~("display" \in DOMAIN c.specified_values
                                       /\ c.specified_values["display"] = Keyword("none")))
    IN  [node |-> root,
         specified_values |-> IF node.data.type = "Element"
                              THEN specified_values(node.data, sheet) ELSE EmptyMap,
         children |-> kept]

\* style_tree; root is the path of the node in html
RECURSIVE style_tree(_, _, _)
style_tree(html, root, sheet) ==
    LET node == NodeAt(html, root)
    IN  [node |-> root,
         specified_values |-> IF node.data.type = "Element"
                              THEN specified_values(node.data, sheet) ELSE EmptyMap,
         children |-> [i \in DOMAIN node.children |-> style_tree(html, root \o <<i>>, sheet)]]

\* StyledNode::value
value(style, name) == get(style.specified_values, name)

\* StyledNode::display
display(style) ==
    LET v == value(style, "display")
    IN  IF v # None /\ v[1].kind = "Keyword"
        THEN IF v[1].s = "block" THEN "Block"
             ELSE IF v[1].s = "none" THEN "None"
             ELSE "Inline"
        ELSE "Inline"

\* StyledNode::lookup
lookup(style, name, fallback_name, default) ==
    IF value(style, name) # None THEN value(style, name)[1]
    ELSE IF value(style, fallback_name) # None THEN value(style, fallback_name)[1]
    ELSE default

\* StyledNode::get_color
get_color_of(style, name) ==
    LET v == value(style, name)
    IN  IF v # None /\ v[1].kind = "Color" THEN Some(v[1]) ELSE None

(***************************************************************************)
(* layout.rs                                                               *)
(***************************************************************************)
Rect(x, y, width, height) == [x |-> x, y |-> y, width |-> width, height |-> height]

EdgeSizes(left, right, top, bottom) == [left |-> left, right |-> right, top |-> top, bottom |-> bottom]

\* Default::default() for Dimensions
DefaultDimensions ==
    [content |-> Rect(f64(0), f64(0), f64(0), f64(0)),
     padding |-> EdgeSizes(f64(0), f64(0), f64(0), f64(0)),
     border |-> EdgeSizes(f64(0), f64(0), f64(0), f64(0)),
     margin |-> EdgeSizes(f64(0), f64(0), f64(0), f64(0))]

BlockNode(node) == [kind |-> "BlockNode", node |-> node]

InlineNode(node) == [kind |-> "InlineNode", node |-> node]

AnonymousBlock == [kind |-> "AnonymousBlock"]

\* LayoutBox::new
new(box_type) == [dimensions |-> DefaultDimensions, box_type |-> box_type, children |-> <<>>]

\* what a call that panicked leaves instead of a box
Panicked(message) == [panic |-> message]

IsPanic(x) == "panic" \in DOMAIN x

\* Rect::expanded_by
expanded_by(rect, edge) ==
    Rect(sub(rect.x, edge.left), sub(rect.y, edge.top),
         add(add(rect.width, edge.left), edge.right),
         add(rect.height, mul(edge.top, edge.bottom)))

\* Dimensions::padding_box
padding_box(d) == expanded_by(d.content, d.padding)

\* Dimensions::border_box
border_box(d) == expanded_by(padding_box(d), d.border)

\* Dimensions::margin_box
margin_box(d) == expanded_by(border_box(d), d.margin)

\* LayoutBox::get_style_node
get_style_node(self) ==
    IF self.box_type.kind \in {"BlockNode", "InlineNode"}
    THEN NodeAt(styled_root, self.box_type.node)
    ELSE Panicked("Anonymous block box has no style node")

\* a bug get_inline_container could have: a new AnonymousBlock for every inline child
get_inline_container_fresh(self) ==
    IF self.box_type.kind \in {"InlineNode", "AnonymousBlock"}
    THEN [self |-> self, at |-> 0]
    ELSE [self |-> [self EXCEPT !.children = Append(@, new(AnonymousBlock))],
          at |-> Len(self.children) + 1]

\* a bug get_inline_container could have: a Block box hosts its inline children itself
get_inline_container_bare(self) == [self |-> self, at |-> 0]

\* LayoutBox::get_inline_container: self after the AnonymousBlock is pushed (if
\* one is), and the box the reference returned points at: 0 for self, else the
\* index of the child
get_inline_container(self) ==
    IF self.box_type.kind \in {"InlineNode", "AnonymousBlock"}
    THEN [self |-> self, at |-> 0]
    ELSE LET n == Len(self.children)
             pushed == IF n > 0 /\ self.children[n].box_type.kind = "AnonymousBlock"
                       THEN self
                       ELSE [self EXCEPT !.children = Append(@, new(AnonymousBlock))]
         IN  [self |-> pushed, at |-> Len(pushed.children)]

\* root.get_inline_container().children.push(child)
push_inline(root, child) ==
    LET c == get_inline_container(root)
    IN  IF c.at = 0
        THEN [c.self EXCEPT !.children = Append(@, child)]
        ELSE [c.self EXCEPT !.children[c.at].children = Append(@, child)]

\* make_layout_tree; node is the path of the styled node in styled_root
RECURSIVE make_layout_tree(_)
RECURSIVE make_layout_children(_, _, _)
make_layout_children(root, node, i) ==
    LET style == NodeAt(styled_root, node)
    IN  IF i > Len(style.children) THEN root
        ELSE LET child == style.children[i]
                 next == IF display(child) = "Block"
                         THEN [root EXCEPT !.children = Append(@, make_layout_tree(node \o <<i>>))]
                         ELSE IF display(child) = "Inline"
                         THEN push_inline(root, make_layout_tree(node \o <<i>>))
                         ELSE root
             IN  make_layout_children(next, node, i + 1)

\* a bug make_layout_tree could have: a root that is not displayed gets a box
make_layout_tree_no_panic(node) ==
    LET style == NodeAt(styled_root, node)
    IN  make_layout_children(
            new(IF display(style) = "Block" THEN BlockNode(node) ELSE InlineNode(node)),
            node, 1)

make_layout_tree(node) ==
    LET style == NodeAt(styled_root, node)
    IN  IF display(style) = "None" THEN Panicked("Root node has display: none")
        ELSE make_layout_children(
                 new(IF display(style) = "Block" THEN BlockNode(node) ELSE InlineNode(node)),
                 node, 1)

Zero == Length(f64(0), Px)

Auto == Keyword("auto")

\* a bug consume_underflow could have: the deficit is not reduced by what was absorbed
consume_underflow_greedy(underflow, v) ==
    LET absorbed(flow) ==
            IF gt(flow, f64(0))
            THEN [value |-> Length(flow, Px), underflow |-> underflow]
            ELSE [value |-> Length(f64(0), Px), underflow |-> underflow]
    IN  absorbed(add(to_px(v), underflow))

\* a bug consume_underflow could have: the value is not stopped at 0
consume_underflow_signed(underflow, v) ==
    LET absorbed(flow) ==
            [value |-> Length(flow, Px), underflow |-> IF gt(flow, f64(0)) THEN f64(0) ELSE flow]
    IN  absorbed(add(to_px(v), underflow))

\* a bug consume_underflow could have: the deficit left is dropped, so that only
\* the first quantity absorbs
consume_underflow_once(underflow, v) ==
    LET absorbed(flow) ==
            IF gt(flow, f64(0))
            THEN [value |-> Length(flow, Px), underflow |-> f64(0)]
            ELSE [value |-> Length(f64(0), Px), underflow |-> f64(0)]
    IN  absorbed(add(to_px(v), underflow))

\* LayoutBox::consume_underflow: the new value and the underflow returned
consume_underflow(underflow, v) ==
    LET absorbed(flow) ==
            IF gt(flow, f64(0))
            THEN [value |-> Length(flow, Px), underflow |-> f64(0)]
            ELSE [value |-> Length(f64(0), Px), underflow |-> flow]
    IN  absorbed(add(to_px(v), underflow))

\* the calls of consume_underflow that calculate_block_width makes one after the
\* other, each with the underflow the one before returned: the new values
RECURSIVE consume_underflows(_, _)
consume_underflows(underflow, lengths) ==
    LET rest(consumed) ==
            <<consumed.value>> \o consume_underflows(consumed.underflow, Tail(lengths))
    IN  IF lengths = <<>> THEN <<>>
        ELSE rest(consume_underflow(underflow, Head(lengths)))

\* a bug calculate_block_width could have: the underflow is never given to width
calculate_block_width_no_auto(self, containing_block) ==
    LET style == get_style_node(self)
    IN  [self EXCEPT
            !.dimensions.content.width = to_px(unwrap_or(value(style, "width"), Auto)),
            !.dimensions.margin.left = to_px(lookup(style, "margin-left", "margin", Zero)),
            !.dimensions.margin.right = to_px(lookup(style, "margin-right", "margin", Zero)),
            !.dimensions.border.left = to_px(lookup(style, "border-left-width", "border-width", Zero)),
            !.dimensions.border.right = to_px(lookup(style, "border-right-width", "border-width", Zero)),
            !.dimensions.padding.left = to_px(lookup(style, "padding-left", "padding", Zero)),
            !.dimensions.padding.right = to_px(lookup(style, "padding-right", "padding", Zero))]

\* a bug calculate_block_width could have: with a fixed width, an auto margin-left
\* takes the underflow
calculate_block_width_auto_margin(self, containing_block) ==
    LET style == get_style_node(self)
        width == unwrap_or(value(style, "width"), Auto)
        margin_left == lookup(style, "margin-left", "margin", Zero)
        margin_right == lookup(style, "margin-right", "margin", Zero)
        border_left == lookup(style, "border-left-width", "border-width", Zero)
        border_right == lookup(style, "border-right-width", "border-width", Zero)
        padding_left == lookup(style, "padding-left", "padding", Zero)
        padding_right == lookup(style, "padding-right", "padding", Zero)
        total == sum(<<to_px(margin_right), to_px(border_right), to_px(padding_right),
                       to_px(padding_left), to_px(border_left), to_px(margin_left),
                       to_px(width)>>)
        \* underflow < 0: reduce the length from the rightmost
        reduced(lengths) ==
            [width |-> lengths[7], margin_left |-> lengths[6], margin_right |-> lengths[1],
             border_left |-> lengths[5], border_right |-> lengths[2],
             padding_left |-> lengths[4], padding_right |-> lengths[3]]
        solved(underflow) ==
            IF lt(underflow, f64(0))
            THEN reduced(consume_underflows(underflow,
                     <<Length(to_px(margin_right), Px), Length(to_px(border_right), Px),
                       Length(to_px(padding_right), Px), Length(to_px(padding_left), Px),
                       Length(to_px(border_left), Px), Length(to_px(margin_left), Px),
                       Length(to_px(width), Px)>>))
            ELSE IF width = Auto
            THEN [width |-> Length(underflow, Px),
                  margin_left |-> Length(to_px(margin_left), Px),
                  margin_right |-> Length(to_px(margin_right), Px),
                  border_left |-> Length(to_px(border_left), Px),
                  border_right |-> Length(to_px(border_right), Px),
                  padding_left |-> Length(to_px(padding_left), Px),
                  padding_right |-> Length(to_px(padding_right), Px)]
            ELSE [width |-> width,
                  margin_left |-> IF margin_left = Auto THEN Length(underflow, Px)
                                  ELSE margin_left,
                  margin_right |-> IF margin_left = Auto THEN margin_right
                                   ELSE Length(add(to_px(margin_right), underflow), Px),
                  border_left |-> border_left, border_right |-> border_right,
                  padding_left |-> padding_left, padding_right |-> padding_right]
        set(lengths) ==
            [self EXCEPT
                !.dimensions.content.width = to_px(lengths.width),
                !.dimensions.margin.left = to_px(lengths.margin_left),
                !.dimensions.margin.right = to_px(lengths.margin_right),
                !.dimensions.border.left = to_px(lengths.border_left),
                !.dimensions.border.right = to_px(lengths.border_right),
                !.dimensions.padding.left = to_px(lengths.padding_left),
                !.dimensions.padding.right = to_px(lengths.padding_right)]
    IN  set(solved(sub(containing_block.content.width, total)))

\* LayoutBox::calculate_block_width
calculate_block_width(self, containing_block) ==
    LET style == get_style_node(self)
        width == unwrap_or(value(style, "width"), Auto)
        margin_left == lookup(style, "margin-left", "margin", Zero)
        margin_right == lookup(style, "margin-right", "margin", Zero)
        border_left == lookup(style, "border-left-width", "border-width", Zero)
        border_right == lookup(style, "border-right-width", "border-width", Zero)
        padding_left == lookup(style, "padding-left", "padding", Zero)
        padding_right == lookup(style, "padding-right", "padding", Zero)
        total == sum(<<to_px(margin_right), to_px(border_right), to_px(padding_right),
                       to_px(padding_left), to_px(border_left), to_px(margin_left),
                       to_px(width)>>)
        \* underflow < 0: reduce the length from the rightmost
        reduced(lengths) ==
            [width |-> lengths[7], margin_left |-> lengths[6], margin_right |-> lengths[1],
             border_left |-> lengths[5], border_right |-> lengths[2],
             padding_left |-> lengths[4], padding_right |-> lengths[3]]
        solved(underflow) ==
            IF lt(underflow, f64(0))
            THEN reduced(consume_underflows(underflow,
                     <<Length(to_px(margin_right), Px), Length(to_px(border_right), Px),
                       Length(to_px(padding_right), Px), Length(to_px(padding_left), Px),
                       Length(to_px(border_left), Px), Length(to_px(margin_left), Px),
                       Length(to_px(width), Px)>>))
            ELSE IF width = Auto
            THEN [width |-> Length(underflow, Px),
                  margin_left |-> Length(to_px(margin_left), Px),
                  margin_right |-> Length(to_px(margin_right), Px),
                  border_left |-> Length(to_px(border_left), Px),
                  border_right |-> Length(to_px(border_right), Px),
                  padding_left |-> Length(to_px(padding_left), Px),
                  padding_right |-> Length(to_px(padding_right), Px)]
            ELSE [width |-> width, margin_left |-> margin_left,
                  margin_right |-> Length(add(to_px(margin_right), underflow), Px),
                  border_left |-> border_left, border_right |-> border_right,
                  padding_left |-> padding_left, padding_right |-> padding_right]
        set(lengths) ==
            [self EXCEPT
                !.dimensions.content.width = to_px(lengths.width),
                !.dimensions.margin.left = to_px(lengths.margin_left),
                !.dimensions.margin.right = to_px(lengths.margin_right),
                !.dimensions.border.left = to_px(lengths.border_left),
                !.dimensions.border.right = to_px(lengths.border_right),
                !.dimensions.padding.left = to_px(lengths.padding_left),
                !.dimensions.padding.right = to_px(lengths.padding_right)]
    IN  IF IsPanic(style) THEN style
        ELSE set(solved(sub(containing_block.content.width, total)))

\* LayoutBox::calculate_block_position
calculate_block_position(self, containing_block) ==
    LET style == get_style_node(self)
        d1 == [self.dimensions EXCEPT
                !.margin.top = to_px(lookup(style, "margin-top", "margin", Zero)),
                !.margin.bottom = to_px(lookup(style, "margin-bottom", "margin", Zero)),
                !.border.top = to_px(lookup(style, "border-top-width", "border-width", Zero)),
                !.border.bottom = to_px(lookup(style, "border-bottom-width", "border-width", Zero)),
                !.padding.top = to_px(lookup(style, "padding-top", "padding", Zero)),
                !.padding.bottom = to_px(lookup(style, "padding-bottom", "padding", Zero))]
    IN  IF IsPanic(style) THEN style
        ELSE [self EXCEPT !.dimensions =
                [d1 EXCEPT
                    !.content.x = add(add(add(containing_block.content.x, d1.margin.left),
                                          d1.border.left), d1.padding.left),
                    !.content.y = add(add(add(add(containing_block.content.height,
                                                  containing_block.content.y),
                                              d1.margin.top), d1.border.top), d1.padding.top)]]

\* LayoutBox::calculate_block_height
calculate_block_height(self) ==
    LET style == get_style_node(self)
        h == value(style, "height")
    IN  IF IsPanic(style) THEN style
        ELSE IF h # None /\ h[1].kind = "Length" /\ h[1].unit = Px
        THEN [self EXCEPT !.dimensions.content.height = h[1].f]
        ELSE self

\* LayoutBox::calculate_inline_position
calculate_inline_position(self, containing_block) ==
    LET style == get_style_node(self)
        d1 == [self.dimensions EXCEPT
                !.margin.left = to_px(lookup(style, "margin-left", "margin", Zero)),
                !.margin.right = to_px(lookup(style, "margin-right", "margin", Zero)),
                !.margin.top = to_px(lookup(style, "margin-top", "margin", Zero)),
                !.margin.bottom = to_px(lookup(style, "margin-bottom", "margin", Zero)),
                !.border.top = to_px(lookup(style, "border-top-width", "border-width", Zero)),
                !.border.bottom = to_px(lookup(style, "border-bottom-width", "border-width", Zero)),
                !.padding.top = to_px(lookup(style, "padding-top", "padding", Zero)),
                !.padding.bottom = to_px(lookup(style, "padding-bottom", "padding", Zero))]
    IN  IF IsPanic(style) THEN style
        ELSE [self EXCEPT !.dimensions =
                [d1 EXCEPT
                    !.content.x = add(add(add(containing_block.content.x, d1.margin.left),
                                          d1.border.left), d1.padding.left),
                    !.content.y = add(add(add(add(containing_block.content.height,
                                                  containing_block.content.y),
                                              d1.margin.top), d1.border.top), d1.padding.top)]]

\* str::len: the length of the text in bytes of its UTF-8 encoding
Utf8Len(c) == IF c \in {"e'", "ss"} THEN 2 ELSE 1

len(body) == SumSeq([i \in DOMAIN body |-> Utf8Len(body[i])])

CharAdvance == 8

LineHeight == 16

RECURSIVE layout(_, _)
RECURSIVE layout_block_children(_, _)
RECURSIVE layout_inline_children(_, _)
RECURSIVE layout_anonymous_children(_, _, _)

\* LayoutBox::layout_block_children; i is the position of the loop
layout_block_children(self, i) ==
    IF i > Len(self.children) THEN self
    ELSE LET child == layout(self.children[i], self.dimensions)
         IN  IF IsPanic(child) THEN child ELSE
             layout_block_children(
                 [self EXCEPT !.children[i] = child,
                              !.dimensions.content.height = add(@, margin_box(child.dimensions).height)],
                 i + 1)

\* LayoutBox::layout_inline_children; i is the position of the loop
layout_inline_children(self, i) ==
    IF i > Len(self.children) THEN self
    ELSE LET child == layout(self.children[i], self.dimensions)
         IN  IF IsPanic(child) THEN child ELSE
             layout_inline_children(
                 [self EXCEPT !.children[i] = child,
                              !.dimensions.content.width = margin_box(child.dimensions).width,
                              !.dimensions.content.height = add(@, margin_box(child.dimensions).height)],
                 i + 1)

\* the AnonymousBlock arm of LayoutBox::layout; i is the position of the loop
layout_anonymous_children(self, containing_block, i) ==
    IF i > Len(self.children) THEN self
    ELSE LET child == layout(self.children[i], containing_block)
         IN  IF IsPanic(child) THEN child ELSE
             layout_anonymous_children(
                 [self EXCEPT !.children[i] = child,
                              !.dimensions.content.width = margin_box(child.dimensions).width,
                              !.dimensions.content.height = add(@, margin_box(child.dimensions).height)],
                 containing_block, i + 1)

\* LayoutBox::layout_block; a panic ends it at the call that panicked
layout_block(self, containing_block) ==
    LET height(laid) == IF IsPanic(laid) THEN laid ELSE calculate_block_height(laid)
        children(placed) ==
            IF IsPanic(placed) THEN placed ELSE height(layout_block_children(placed, 1))
        position(solved) ==
            IF IsPanic(solved) THEN solved
            ELSE children(calculate_block_position(solved, containing_block))
    IN  position(calculate_block_width(self, containing_block))

\* LayoutBox::layout_inline; a panic ends it at the call that panicked
layout_inline(self, containing_block) ==
    LET text(laid) ==
            LET style == get_style_node(self)
                data == NodeAt(html_tree, style.node).data
            IN  IF IsPanic(laid) THEN laid
                ELSE IF IsPanic(style) THEN style
                ELSE IF data.type = "Text"
                THEN [laid EXCEPT !.dimensions.content.width =
                                      mul(f64(len(data.body)), f64(CharAdvance)),
                                  !.dimensions.content.height = f64(LineHeight)]
                ELSE laid
        children(placed) ==
            IF IsPanic(placed) THEN placed ELSE text(layout_inline_children(placed, 1))
    IN  children(calculate_inline_position(self, containing_block))

\* a bug layout could have: no arm for AnonymousBlock, which is laid out as an
\* inline box
layout_anonymous_as_inline(self, containing_block) ==
    IF self.box_type.kind = "BlockNode" THEN layout_block(self, containing_block)
    ELSE layout_inline(self, containing_block)

\* LayoutBox::layout
layout(self, containing_block) ==
    IF self.box_type.kind = "BlockNode" THEN layout_block(self, containing_block)
    ELSE IF self.box_type.kind = "InlineNode" THEN layout_inline(self, containing_block)
    ELSE layout_anonymous_children(self, containing_block, 1)

(***************************************************************************)
(* painter.rs                                                              *)
(***************************************************************************)
SolidColor(color, rect) == [kind |-> "SolidColor", color |-> color, rect |-> rect]

TextCommand(content, rect) == [kind |-> "Text", content |-> content, rect |-> rect]

\* painter::get_color
get_color(layout_box, name) ==
    IF layout_box.box_type.kind \in {"BlockNode", "InlineNode"}
    THEN get_color_of(NodeAt(styled_root, layout_box.box_type.node), name)
    ELSE None

\* render_text
render_text(list, layout_box) ==
    IF layout_box.box_type.kind \in {"BlockNode", "InlineNode"}
    THEN LET data == NodeAt(html_tree, NodeAt(styled_root, layout_box.box_type.node).node).data
         IN  IF data.type = "Text"
             THEN Append(list, TextCommand(data.body, border_box(layout_box.dimensions)))
             ELSE list
    ELSE list

\* render_background
render_background(list, layout_box) ==
    LET color == get_color(layout_box, "background")
    IN  IF color # None
        THEN Append(list, SolidColor(color[1], border_box(layout_box.dimensions)))
        ELSE list

\* render_border
render_border(list, layout_box) ==
    LET color == get_color(layout_box, "border-color")
        d == layout_box.dimensions
        bb == border_box(d)
    IN  IF color = None THEN list
        ELSE list \o <<
            SolidColor(color[1], Rect(bb.x, bb.y, d.border.left, bb.height)),
            SolidColor(color[1], Rect(sub(add(bb.x, bb.width), d.border.right), bb.y, d.border.right, bb.height)),
            SolidColor(color[1], Rect(bb.x, bb.y, bb.width, d.border.top)),
            SolidColor(color[1], Rect(bb.x, sub(add(bb.y, bb.height), d.border.bottom), bb.width, d.border.bottom))>>

RECURSIVE render_layout_box_tree(_, _)
RECURSIVE render_children(_, _, _)
render_children(list, layout_box, i) ==
    IF i > Len(layout_box.children) THEN list
    ELSE render_children(render_layout_box_tree(list, layout_box.children[i]), layout_box, i + 1)

\* a bug render_layout_box_tree could have: the children are rendered before the box
render_layout_box_tree_children_first(list, layout_box) ==
    render_border(
        render_background(render_text(render_children(list, layout_box, 1), layout_box), layout_box),
        layout_box)

\* render_layout_box_tree
render_layout_box_tree(list, layout_box) ==
    render_children(
        render_border(render_background(render_text(list, layout_box), layout_box), layout_box),
        layout_box, 1)

(***************************************************************************)
(* Bounds of the inputs                                                    *)
(***************************************************************************)
MaxNodes == 4        \* nodes of a document tree

MaxViewport == 3     \* width of the viewport, in pixels

MaxEdge == 1         \* a margin, border or padding length, in pixels

MaxWidth == 3        \* a width length, in pixels

MaxHeight == 2       \* a height length, in pixels

MaxRules == 2        \* rules of a stylesheet

MaxSelectors == 2    \* selectors of a rule

MaxText == 2         \* characters of a text node

ViewportHeight == 360

\* the viewport main() builds: only content.width and content.height are set
Viewport(width) == [DefaultDimensions EXCEPT !.content.width = f64(width),
                                             !.content.height = f64(ViewportHeight)]

TagSelector(name) == SimpleSelector(Some(name), None, <<>>)

IdSelector(name) == SimpleSelector(None, Some(name), <<>>)

\* the declaration of a property, if a value is chosen for it
Declare(name, choice) == IF choice = None THEN <<>> ELSE <<Declaration(name, choice[1])>>

Lengths(from, to) == {Some(Length(f, Px)) : f \in from..to}

White == Color(255, 255, 255, 255)

Green == Color(0, 51, 0, 255)

(***************************************************************************)
(* Documents: every tree of at most MaxNodes nodes over div, span, nav and *)
(* a text leaf                                                             *)
(***************************************************************************)
Tags == {"div", "span", "nav"}

RECURSIVE TreesOfSize(_)
RECURSIVE ForestsOfSize(_)
TreesOfSize(n) ==
    {Elem(tag, NoAttrs, f) : tag \in Tags, f \in ForestsOfSize(n - 1)}
    \cup (IF n = 1 THEN {Text(<<"h", "i">>)} ELSE {})

ForestsOfSize(n) ==
    IF n = 0 THEN {<<>>}
    ELSE UNION {{<<t>> \o f : t \in TreesOfSize(k), f \in ForestsOfSize(n - k)} : k \in 1..n}

Trees == UNION {TreesOfSize(n) : n \in 1..MaxNodes}

\* div is a block with edges of k pixels and the given width, span is inline
\* with edges of k pixels, nav is not displayed
TreeSheet(width, k) ==
    <<[selectors |-> <<TagSelector("div")>>,
       declarations |-> <<Declaration("display", Keyword("block"))>>
                        \o Declare("width", width)
                        \o <<Declaration("margin", Length(k, Px)),
                             Declaration("padding", Length(k, Px)),
                             Declaration("border-width", Length(k, Px)),
                             Declaration("background", Green),
                             Declaration("border-color", White)>>],
      [selectors |-> <<TagSelector("span")>>,
       declarations |-> <<Declaration("margin", Length(k, Px)),
                          Declaration("padding", Length(k, Px)),
                          Declaration("background", White)>>],
      [selectors |-> <<TagSelector("nav")>>,
       declarations |-> <<Declaration("display", Keyword("none"))>>]>>

TreeSheets == {TreeSheet(w, k) : w \in {None, Some(Auto)} \cup Lengths(MaxWidth, MaxWidth),
                                 k \in 0..MaxEdge}

(***************************************************************************)
(* The pipeline of main()                                                  *)
(***************************************************************************)
NotYet == <<>>

Start(trees, sheets, widths) ==
    /\ numbers = "whole"
    /\ pc = "start"
    /\ html_tree \in trees
    /\ css_source \in sheets
    /\ viewport \in {Viewport(w) : w \in widths}
    /\ stylesheet = NotYet
    /\ styled_root = NotYet
    /\ root_box = NotYet
    /\ display_list = NotYet

Init == Start(Trees, TreeSheets, 0..MaxViewport)

\* main.rs:49  let stylesheet = css::parse(css_source);
Parse ==
    /\ pc = "start"
    /\ stylesheet' = parse(css_source)
    /\ pc' = "parsed"
    /\ UNCHANGED <<css_source, html_tree, viewport, styled_root, root_box, display_list,
                 numbers>>

\* main.rs:57  let style_tree = style::style_tree(&html_tree, &stylesheet);
Style ==
    /\ pc = "parsed"
    /\ styled_root' = style_tree(html_tree, <<>>, stylesheet)
    /\ pc' = "styled"
    /\ UNCHANGED <<css_source, html_tree, viewport, stylesheet, root_box, display_list,
                 numbers>>

\* layout.rs:50  let mut root_box = make_layout_tree(node); a panic ends the pass
MakeLayoutTree ==
    /\ pc = "styled"
    /\ root_box' = make_layout_tree(<<>>)
    /\ pc' = IF IsPanic(make_layout_tree(<<>>)) THEN "panicked" ELSE "built"
    /\ UNCHANGED <<css_source, html_tree, viewport, stylesheet, styled_root, display_list,
                 numbers>>

\* layout.rs:49,51  containing_block.content.height = 0.0; root_box.layout(containing_block);
Layout ==
    /\ pc = "built"
    /\ root_box' = layout(root_box, [viewport EXCEPT !.content.height = f64(0)])
    /\ pc' = IF IsPanic(layout(root_box, [viewport EXCEPT !.content.height = f64(0)]))
             THEN "panicked" ELSE "laid_out"
    /\ UNCHANGED <<css_source, html_tree, viewport, stylesheet, styled_root, display_list,
                 numbers>>

\* main.rs:62-63  painter::render_layout_box_tree(&mut display_list, &layout_tree);
Render ==
    /\ pc = "laid_out"
    /\ display_list' = render_layout_box_tree(<<>>, root_box)
    /\ pc' = "painted"
    /\ UNCHANGED <<css_source, html_tree, viewport, stylesheet, styled_root, root_box,
                 numbers>>

Next == Parse \/ Style \/ MakeLayoutTree \/ Layout \/ Render

\* the render pass over every document of Trees
Spec == Init /\ [][Next]_vars

(***************************************************************************)
(* One block box: a div with every combination of the seven quantities of  *)
(* the width solve, in a viewport of every width up to MaxViewport         *)
(***************************************************************************)
OneDiv == Elem("div", NoAttrs, <<>>)

WidthChoices ==
    [width : {None, Some(Auto)} \cup Lengths(0, MaxWidth),
     margin : {None} \cup Lengths(MaxEdge, MaxEdge),
     margin_left : {None, Some(Auto)} \cup Lengths(0, MaxEdge),
     margin_right : {None, Some(Auto)} \cup Lengths(0, MaxEdge),
     border_left : {None} \cup Lengths(1, MaxEdge),
     border_right : {None} \cup Lengths(1, MaxEdge),
     padding_left : {None} \cup Lengths(1, MaxEdge),
     padding_right : {None} \cup Lengths(1, MaxEdge)]

WidthSheet(c) ==
    <<[selectors |-> <<TagSelector("div")>>,
       declarations |-> <<Declaration("display", Keyword("block"))>>
                        \o Declare("width", c.width)
                        \o Declare("margin", c.margin)
                        \o Declare("margin-left", c.margin_left)
                        \o Declare("margin-right", c.margin_right)
                        \o Declare("border-left-width", c.border_left)
                        \o Declare("border-right-width", c.border_right)
                        \o Declare("padding-left", c.padding_left)
                        \o Declare("padding-right", c.padding_right)]>>

\* width: auto; margin-left: 10px, to be laid out in a containing block 100 wide
UnderConstrained ==
    WidthSheet([width |-> Some(Auto), margin |-> None, margin_left |-> Some(Length(10, Px)),
                margin_right |-> None, border_left |-> None, border_right |-> None,
                padding_left |-> None, padding_right |-> None])

\* width: 60px; margin-left: 20px, to be laid out in a containing block 50 wide
OverConstrained ==
    WidthSheet([width |-> Some(Length(60, Px)), margin |-> None,
                margin_left |-> Some(Length(20, Px)),
                margin_right |-> None, border_left |-> None, border_right |-> None,
                padding_left |-> None, padding_right |-> None])

InitWidth ==
    \/ Start({OneDiv}, {WidthSheet(c) : c \in WidthChoices}, 0..MaxViewport)
    \/ Start({OneDiv}, {UnderConstrained}, {100})
    \/ Start({OneDiv}, {OverConstrained}, {50})

\* the render pass over one block box
SpecWidth == InitWidth /\ [][Next]_vars

(***************************************************************************)
(* A block with two block children: every combination of the children's    *)
(* heights and top and bottom edges, and of the parent's height            *)
(***************************************************************************)
WithId(name) == "id" :> name

Stack == Elem("div", NoAttrs, <<Elem("p", WithId(<<"a">>), <<>>), Elem("p", WithId(<<"b">>), <<>>)>>)

StackChoices ==
    [height : {None, Some(Auto)} \cup Lengths(0, MaxHeight),
     a_height : Lengths(0, MaxHeight),
     a_top : Lengths(0, MaxEdge),
     a_bottom : Lengths(0, MaxEdge),
     b_height : Lengths(0, MaxHeight),
     b_top : Lengths(0, MaxEdge),
     b_bottom : Lengths(0, MaxEdge)]

StackSheet(c) ==
    <<[selectors |-> <<TagSelector("div"), TagSelector("p")>>,
       declarations |-> <<Declaration("display", Keyword("block"))>>],
      [selectors |-> <<TagSelector("div")>>,
       declarations |-> Declare("height", c.height)],
      [selectors |-> <<IdSelector(<<"a">>)>>,
       declarations |-> Declare("height", c.a_height)
                        \o Declare("margin-top", c.a_top)
                        \o Declare("margin-bottom", c.a_bottom)],
      [selectors |-> <<IdSelector(<<"b">>)>>,
       declarations |-> Declare("height", c.b_height)
                        \o Declare("padding-top", c.b_top)
                        \o Declare("border-bottom-width", c.b_bottom)]>>

\* two children of heights 20 and 30 without edges, the parent without height and with height: 15px
StackExample(height) ==
    StackSheet([height |-> height,
                a_height |-> Some(Length(20, Px)), a_top |-> Some(Zero), a_bottom |-> Some(Zero),
                b_height |-> Some(Length(30, Px)), b_top |-> Some(Zero), b_bottom |-> Some(Zero)])

InitHeight ==
    \/ Start({Stack}, {StackSheet(c) : c \in StackChoices}, {MaxViewport})
    \/ Start({Stack}, {StackExample(None), StackExample(Some(Length(15, Px)))}, {MaxViewport})

\* the render pass over a block with two block children
SpecHeight == InitHeight /\ [][Next]_vars

(***************************************************************************)
(* The cascade: one element and every stylesheet of at most MaxRules rules *)
(* with at most MaxSelectors different selectors each                      *)
(***************************************************************************)
CascadeElements ==
    {Elem("div", "class" :> <<"a", " ", "b">>, <<>>),
     Elem("div", ("id" :> <<"y">>) @@ ("class" :> <<"a">>), <<>>)}

\* div.a (0,1,1), .a.b (0,2,0), #y (1,0,0)
CascadeSelectors ==
    {SimpleSelector(Some("div"), None, <<(<<"a">>)>>),
     SimpleSelector(None, None, <<(<<"a">>), (<<"b">>)>>),
     IdSelector(<<"y">>)}

RECURSIVE SelectorLists(_)
SelectorLists(n) ==
    IF n = 0 THEN {<<>>}
    ELSE {Append(l, sel) : l \in SelectorLists(n - 1), sel \in CascadeSelectors}

WrittenSelectors ==
    {l \in UNION {SelectorLists(n) : n \in 1..MaxSelectors} :
        \A i, j \in DOMAIN l : i # j => l[i] # l[j]}

\* the n-th rule declares width: n px, and before it height: n px when n is odd
CascadeDeclarations(n) ==
    (IF n % 2 = 1 THEN <<Declaration("height", Length(n, Px))>> ELSE <<>>)
    \o <<Declaration("width", Length(n, Px))>>

RECURSIVE CascadeSheets(_)
CascadeSheets(n) ==
    IF n = 0 THEN {<<>>}
    ELSE {Append(sheet, [selectors |-> l, declarations |-> CascadeDeclarations(n)]) :
            sheet \in CascadeSheets(n - 1), l \in WrittenSelectors}

InitCascade ==
    Start(CascadeElements, UNION {CascadeSheets(n) : n \in 0..MaxRules}, {MaxViewport})

\* the render pass over one element
SpecCascade == InitCascade /\ [][Next]_vars

(***************************************************************************)
(* The text of a stylesheet: every stylesheet of at most MaxRules rules of  *)
(* at most two declarations, written without whitespace, with spaces,     *)
(* with newlines and tabs, and with vertical tabs, carriage returns and    *)
(* form feeds; and the stylesheet of test_parse_css                        *)
(***************************************************************************)
\* the characters of the words the stylesheets are written with
Spelling(word) ==
    CASE word = "div" -> <<"d", "i", "v">>
      [] word = "width" -> <<"w", "i", "d", "t", "h">>
      [] word = "background" -> <<"b", "a", "c", "k", "g", "r", "o", "u", "n", "d">>
      [] word = "auto" -> <<"a", "u", "t", "o">>
      [] word = "none" -> <<"n", "o", "n", "e">>

RECURSIVE DecimalText(_)
DecimalText(n) ==
    IF n < 10 THEN <<Digits[n + 1]>> ELSE DecimalText(n \div 10) \o <<Digits[(n % 10) + 1]>>

HexText(n) ==
    LET digit(v) == IF v < 10 THEN Digits[v + 1] ELSE LowerLetters[v - 9]
    IN  <<digit(n \div 16), digit(n % 16)>>

ValueText(v) ==
    IF v.kind = "Length" THEN DecimalText(v.f) \o <<"p", "x">>
    ELSE IF v.kind = "Color" THEN <<"#">> \o HexText(v.r) \o HexText(v.g) \o HexText(v.b)
    ELSE Spelling(v.s)

SelectorText(selector) ==
    (IF selector.tag_name = None THEN <<>> ELSE Spelling(selector.tag_name[1]))
    \o (IF selector.id = None THEN <<>> ELSE <<"#">> \o selector.id[1])
    \o Flatten([i \in DOMAIN selector.class |-> <<".">> \o selector.class[i]])

\* a rule as text; space is the whitespace written between its tokens
RuleText(rule, space) ==
    Flatten([i \in DOMAIN rule.selectors |->
                (IF i = 1 THEN <<>> ELSE <<",">> \o space) \o SelectorText(rule.selectors[i])])
    \o space \o <<"{">> \o space
    \o Flatten([j \in DOMAIN rule.declarations |->
                Spelling(rule.declarations[j].name) \o <<":">> \o space
                \o ValueText(rule.declarations[j].value) \o <<";">> \o space])
    \o <<"}">> \o space

SheetText(rules, space) == Flatten([r \in DOMAIN rules |-> RuleText(rules[r], space)])

Spacings == {<<>>, <<" ">>, <<"\n", "\t">>, <<"", "\r", "\f">>}

\* a width, then perhaps a background
SourceDeclarations ==
    {<<>>}
    \cup {<<Declaration("width", w)>> :
            w \in {Length(MaxWidth, Px), Length(100, Px), White, Keyword("auto")}}
    \cup {<<Declaration("width", w), Declaration("background", b)>> :
            w \in {Length(MaxWidth, Px), Length(100, Px), White, Keyword("auto")},
            b \in {Green, Keyword("none")}}

\* the n-th rule is for div when n is odd, and for div.a, #y when n is even
SourceSelectors(n) ==
    IF n % 2 = 1 THEN <<TagSelector("div")>>
    ELSE <<SimpleSelector(Some("div"), None, <<(<<"a">>)>>), IdSelector(<<"y">>)>>

RECURSIVE SourceSheets(_)
SourceSheets(n) ==
    IF n = 0 THEN {<<>>}
    ELSE {Append(sheet, [selectors |-> SourceSelectors(n), declarations |-> d]) :
            sheet \in SourceSheets(n - 1), d \in SourceDeclarations}

\* css.rs:309  div { width: 100px; height: 50px; color: #ffffff; background-color: #003300; }
TestSource ==
    <<"d", "i", "v", " ", "{", " ", "w", "i", "d", "t", "h", ":", " ", "1",
      "0", "0", "p", "x", ";", " ", "h", "e", "i", "g", "h", "t", ":", " ",
      "5", "0", "p", "x", ";", " ", "c", "o", "l", "o", "r", ":", " ", "#",
      "f", "f", "f", "f", "f", "f", ";", " ", "b", "a", "c", "k", "g", "r",
      "o", "u", "n", "d", "-", "c", "o", "l", "o", "r", ":", " ", "#", "0",
      "0", "3", "3", "0", "0", ";", " ", "}">>

InitSource ==
    Start({OneDiv},
          {SheetText(sheet, space) : sheet \in UNION {SourceSheets(n) : n \in 0..MaxRules},
                                     space \in Spacings}
          \cup {TestSource},
          {MaxViewport})

\* main.rs:49  let stylesheet = css::parse(css_source); on the text of the stylesheet
ParseSource ==
    /\ pc = "start"
    /\ stylesheet' = parse_source(css_source)
    /\ pc' = IF IsPanic(parse_source(css_source)) THEN "panicked" ELSE "parsed"
    /\ UNCHANGED <<css_source, html_tree, viewport, styled_root, root_box, display_list,
                 numbers>>

NextSource == ParseSource \/ Style \/ MakeLayoutTree \/ Layout \/ Render

\* the render pass from the text of the stylesheet
SpecSource == InitSource /\ [][NextSource]_vars

(***************************************************************************)
(* Lengths with a fraction: one div whose margin-left, margin-right and    *)
(* width are decimal numbers as parse_float reads them, in the viewport of *)
(* main() and in two narrow ones; the numbers of the pass are binary64     *)
(***************************************************************************)
\* the length parse_float and parse_unit read from the text of a number and px
Pixel(text) == Some(Length(parse_float(Parser(text)).out, Px))

FractionChoices ==
    [width : {None, Some(Auto), Pixel(<<"0", ".", "3">>), Pixel(<<"1", "0", "0">>),
              Pixel(<<"5", "0", "0">>),
              \* 2^53
              Pixel(<<"9", "0", "0", "7", "1", "9", "9", "2", "5", "4", "7", "4", "0", "9",
                      "9", "2">>)},
     margin : {None},
     margin_left : {Pixel(<<"0", ".", "4">>), Pixel(<<"1">>)},
     margin_right : {Pixel(<<"0", ".", "9">>), Pixel(<<"2">>)},
     border_left : {None},
     border_right : {None},
     padding_left : {None},
     padding_right : {None}]

\* main.rs:54  viewport.content.width = 480.0; and the widths 0 and 1
ViewportWidths == {0, 1, 480}

InitFraction ==
    /\ numbers = "binary64"
    /\ pc = "start"
    /\ html_tree = OneDiv
    /\ css_source \in {WidthSheet(c) : c \in FractionChoices}
    /\ viewport \in {Viewport(w) : w \in ViewportWidths}
    /\ stylesheet = NotYet
    /\ styled_root = NotYet
    /\ root_box = NotYet
    /\ display_list = NotYet

\* the render pass over one block box with fractions, in binary64
SpecFraction == InitFraction /\ [][Next]_vars

(***************************************************************************)
(* Matching: one element and one rule of one selector                       *)
(***************************************************************************)
\* class="a b", id="y" class="a", class="a<tab>b", class="b<newline>a", no
\* attribute, and another tag
MatchElements ==
    CascadeElements
    \cup {Elem("div", "class" :> <<"a", "\t", "b">>, <<>>),
          Elem("div", "class" :> <<"b", "\n", "a">>, <<>>),
          Elem("div", NoAttrs, <<>>),
          Elem("p", "class" :> <<"a">>, <<>>)}

\* the selectors of the cascade, the selector of nothing (*), and p and #z
MatchSelectors ==
    CascadeSelectors
    \cup {SimpleSelector(None, None, <<>>), TagSelector("p"), IdSelector(<<"z">>)}

InitMatch ==
    Start(MatchElements,
          {<<[selectors |-> <<selector>>, declarations |-> CascadeDeclarations(1)]>> :
              selector \in MatchSelectors},
          {MaxViewport})

\* the render pass over one element and one selector
SpecMatch == InitMatch /\ [][Next]_vars

(***************************************************************************)
(* Text: a text node of at most MaxText characters, one or two bytes each, *)
(* alone or the child of a div or a span                                   *)
(***************************************************************************)
TextChars == {"h", "e'"}

Bodies == UNION {[1..n -> TextChars] : n \in 1..MaxText}

TextTrees ==
    {Text(body) : body \in Bodies}
    \cup {Elem(tag, NoAttrs, <<Text(body)>>) : tag \in {"div", "span"}, body \in Bodies}

InitText == Start(TextTrees, TreeSheets, 0..MaxViewport)

\* the render pass over a document with one text node
SpecText == InitText /\ [][Next]_vars

(***************************************************************************)
(* Properties                                                              *)
(***************************************************************************)
Parsed == pc # "start"

Styled == pc \notin {"start", "parsed"}

Built == pc \in {"built", "laid_out", "painted"}

LaidOut == pc \in {"laid_out", "painted"}

Max(a, b) == IF a > b THEN a ELSE b

\* the elements of the document, by path
Elements == {p \in Paths(html_tree) : NodeAt(html_tree, p).data.type = "Element"}

\* C1: the styled tree has the shape of the document tree: the same paths, so
\* the same number of children in the same order at every level, and the
\* styled node at a path refers to the node at that path, whatever it displays
\* as.
C1_SameShape ==
    Styled =>
        /\ Paths(styled_root) = Paths(html_tree)
        /\ \A p \in Paths(styled_root) :
              /\ NodeAt(styled_root, p).node = p
              /\ Len(NodeAt(styled_root, p).children) = Len(NodeAt(html_tree, p).children)

\* C1 witness: a styled document in which a node that is not displayed has a
\* sibling after it and a child of its own
C1_Witness ==
    /\ pc = "styled"
    /\ \E p \in Paths(styled_root) :
          /\ p # <<>>
          /\ display(NodeAt(styled_root, p)) = "None"
          /\ Len(NodeAt(styled_root, p).children) = 1
          /\ Len(NodeAt(styled_root, SubSeq(p, 1, Len(p) - 1)).children) > p[Len(p)]

\* the selectors of a rule that match the element
Matching(elem, rule) == {i \in DOMAIN rule.selectors : matches(elem, rule.selectors[i])}

\* the highest specificity among the selectors of the rule that match the element
BestSpecificity(elem, rule) ==
    LET m == Matching(elem, rule)
        best == CHOOSE i \in m : \A j \in m :
                    ~SpecificityLess(specificity(rule.selectors[i]), specificity(rule.selectors[j]))
    IN  specificity(rule.selectors[best])

\* the positions at which the rule declares the property
Declaring(rule, name) == {j \in DOMAIN rule.declarations : rule.declarations[j].name = name}

\* the rules that match the element and declare the property
Candidates(elem, rules, name) ==
    {r \in DOMAIN rules : Matching(elem, rules[r]) # {} /\ Declaring(rules[r], name) # {}}

\* rule r loses to rule q: q has the higher specificity, or the same and comes later
LosesTo(elem, rules, r, q) ==
    \/ SpecificityLess(BestSpecificity(elem, rules[r]), BestSpecificity(elem, rules[q]))
    \/ /\ BestSpecificity(elem, rules[r]) = BestSpecificity(elem, rules[q])
       /\ r < q

PropertyNames == {"display", "width", "height"}

\* C2: the resolved value of a property is the value declared by the matching
\* rule of the highest specificity among those that declare it, the later rule
\* among equals, wherever the rules stand in the stylesheet; a property no
\* matching rule declares is not resolved.
C2_Cascade ==
    Styled =>
        \A p \in Elements : \A name \in PropertyNames :
            LET elem == NodeAt(html_tree, p).data
                rules == stylesheet.rules
                cands == Candidates(elem, rules, name)
                resolved == value(NodeAt(styled_root, p), name)
            IN  IF cands = {} THEN resolved = None
                ELSE \E w \in cands :
                        /\ \A r \in cands \ {w} : LosesTo(elem, rules, r, w)
                        /\ \E j \in Declaring(rules[w], name) :
                              /\ \A k \in Declaring(rules[w], name) : k <= j
                              /\ resolved = Some(rules[w].declarations[j].value)

\* C2 witness: two rules that match the element both declare width, the first
\* of the stylesheet has the higher specificity, and its value is the resolved
\* one
C2_Witness ==
    /\ pc = "styled"
    /\ Len(stylesheet.rules) = 2
    /\ LET elem == html_tree.data
       IN  /\ Candidates(elem, stylesheet.rules, "width") = {1, 2}
           /\ LosesTo(elem, stylesheet.rules, 2, 1)
           /\ value(styled_root, "width") = Some(Length(1, Px))

\* C3: a rule is matched when one of the selectors it lists matches the
\* element, whatever their written order; it then appears once among the
\* matched rules, ranked by the highest specificity among its selectors that
\* match, and each of its declarations is applied exactly once; the
\* declarations of the other rules are not applied.
C3_BestSelector ==
    Parsed =>
        \A p \in Elements :
            LET elem == NodeAt(html_tree, p).data
                matched == matching_rules(elem, stylesheet)
                applied == applied_declarations(elem, stylesheet)
            IN  \A r \in DOMAIN css_source :
                    LET at == {k \in DOMAIN matched : matched[k][2] = r}
                    IN  IF Matching(elem, css_source[r]) = {}
                        THEN /\ at = {}
                             /\ \A k \in DOMAIN applied : applied[k][1] # r
                        ELSE /\ Cardinality(at) = 1
                             /\ \A k \in at : matched[k][1] = BestSpecificity(elem, css_source[r])
                             /\ \A j \in DOMAIN css_source[r].declarations :
                                   Cardinality({k \in DOMAIN applied : applied[k] = <<r, j>>}) = 1

\* C3 witness: a rule lists two selectors that both match the element, the
\* one of lower specificity first
C3_Witness ==
    /\ pc = "styled"
    /\ \E r \in DOMAIN css_source :
          /\ Len(css_source[r].selectors) = 2
          /\ Matching(html_tree.data, css_source[r]) = {1, 2}
          /\ SpecificityLess(specificity(css_source[r].selectors[1]),
                             specificity(css_source[r].selectors[2]))
          /\ Len(css_source[r].declarations) = 2
          /\ Len(applied_declarations(html_tree.data, stylesheet)) = 2

\* the value of one of the seven quantities of the width solve, as the style gives it
Quantity(style, q) ==
    IF q = "width" THEN unwrap_or(value(style, "width"), Auto)
    ELSE IF q = "margin_left" THEN lookup(style, "margin-left", "margin", Zero)
    ELSE IF q = "margin_right" THEN lookup(style, "margin-right", "margin", Zero)
    ELSE IF q = "border_left" THEN lookup(style, "border-left-width", "border-width", Zero)
    ELSE IF q = "border_right" THEN lookup(style, "border-right-width", "border-width", Zero)
    ELSE IF q = "padding_left" THEN lookup(style, "padding-left", "padding", Zero)
    ELSE lookup(style, "padding-right", "padding", Zero)

\* the pixels of a quantity: a non-length counts as 0
Pixels(style, q) == IF Quantity(style, q).kind = "Length" THEN Quantity(style, q).f ELSE 0

\* the quantity as the width solve left it in the dimensions of the box
Solved(d, q) ==
    IF q = "width" THEN d.content.width
    ELSE IF q = "margin_left" THEN d.margin.left
    ELSE IF q = "margin_right" THEN d.margin.right
    ELSE IF q = "border_left" THEN d.border.left
    ELSE IF q = "border_right" THEN d.border.right
    ELSE IF q = "padding_left" THEN d.padding.left
    ELSE d.padding.right

\* the order in which the quantities absorb a deficit
AbsorptionOrder ==
    <<"margin_right", "border_right", "padding_right", "padding_left", "border_left",
      "margin_left", "width">>

Edges == {"margin_left", "margin_right", "border_left", "border_right", "padding_left",
          "padding_right"}

\* containing width minus the sum of the seven quantities
Underflow(style, containing_width) ==
    containing_width - SumSeq([i \in DOMAIN AbsorptionOrder |-> Pixels(style, AbsorptionOrder[i])])

\* C4: with underflow >= 0 and width auto, content.width is the underflow,
\* every edge that is no length is 0 and every edge that is a length keeps it.
C4_AutoWidth ==
    LaidOut =>
        LET d == root_box.dimensions
            u == Underflow(styled_root, viewport.content.width)
        IN  (u >= 0 /\ Quantity(styled_root, "width") = Auto) =>
                /\ d.content.width = u
                /\ \A q \in Edges :
                      IF Quantity(styled_root, q).kind = "Length"
                      THEN Solved(d, q) = Quantity(styled_root, q).f
                      ELSE Solved(d, q) = 0

\* C4 witness: containing width 100, width auto, margin-left 10px, all else 0:
\* content.width = 90 and margin.right = 0
C4_Witness ==
    /\ pc = "laid_out"
    /\ viewport.content.width = 100
    /\ Quantity(styled_root, "width") = Auto
    /\ Quantity(styled_root, "margin_left") = Length(10, Px)
    /\ \A q \in Edges \ {"margin_left"} : Pixels(styled_root, q) = 0
    /\ root_box.dimensions.content.width = 90
    /\ root_box.dimensions.margin.right = 0
    /\ root_box.dimensions.margin.left = 10

\* the pixels of the quantities before position i of the absorption order
Before(style, i) == SumSeq([j \in 1..(i - 1) |-> Pixels(style, AbsorptionOrder[j])])

\* C5: with underflow < 0 the quantity at each position of the absorption
\* order ends at max(0, value - what is left of the deficit after the
\* quantities before it); none ends below 0, and one is reduced only if all
\* before it ended at 0.
C5_Absorption ==
    LaidOut =>
        LET d == root_box.dimensions
            u == Underflow(styled_root, viewport.content.width)
        IN  u < 0 =>
                \A i \in DOMAIN AbsorptionOrder :
                    LET q == AbsorptionOrder[i]
                        remaining == Max(0, (0 - u) - Before(styled_root, i))
                    IN  /\ Solved(d, q) = Max(0, Pixels(styled_root, q) - remaining)
                        /\ Solved(d, q) >= 0
                        /\ Solved(d, q) < Pixels(styled_root, q) =>
                              \A j \in 1..(i - 1) : Solved(d, AbsorptionOrder[j]) = 0

\* C5 witness: containing width 50, width 60px, margin-left 20px, all else 0:
\* margin.left = 0 and content.width = 50
C5_Witness ==
    /\ pc = "laid_out"
    /\ viewport.content.width = 50
    /\ Quantity(styled_root, "width") = Length(60, Px)
    /\ Quantity(styled_root, "margin_left") = Length(20, Px)
    /\ \A q \in Edges \ {"margin_left"} : Pixels(styled_root, q) = 0
    /\ root_box.dimensions.margin.left = 0
    /\ root_box.dimensions.content.width = 50

\* the additive expansion: the outward growth of a rectangle by an edge ring
expanded_by_sum(rect, edge) ==
    Rect(rect.x - edge.left, rect.y - edge.top,
         rect.width + edge.left + edge.right, rect.height + edge.top + edge.bottom)

\* the boxes of the layout tree, by path
Boxes == Paths(root_box)

Kind(box) == box.box_type.kind

\* the height of the margin box: the content height and the top and bottom
\* sizes of padding, border and margin
OuterHeight(d) ==
    d.content.height + d.padding.top + d.padding.bottom + d.border.top + d.border.bottom
    + d.margin.top + d.margin.bottom

\* C6: after layout, the content.height of a Block box is its explicit height
\* when "height" is a length, and else the sum of the margin-box heights of
\* its children.
C6_BlockHeight ==
    LaidOut =>
        \A q \in Boxes :
            LET box == NodeAt(root_box, q)
                h == IF Kind(box) = "BlockNode" THEN value(get_style_node(box), "height") ELSE None
            IN  Kind(box) = "BlockNode" =>
                    IF h # None /\ h[1].kind = "Length"
                    THEN box.dimensions.content.height = h[1].f
                    ELSE box.dimensions.content.height =
                         SumSeq([k \in DOMAIN box.children |-> OuterHeight(box.children[k].dimensions)])

\* C7: each of the three boxes of a Dimensions is the additive expansion of
\* the box inside it, so the height of the margin box is the content height
\* plus the top and bottom sizes of padding, border and margin.
C7_AdditiveExpansion ==
    LaidOut =>
        \A q \in Boxes :
            LET d == NodeAt(root_box, q).dimensions
            IN  /\ padding_box(d) = expanded_by_sum(d.content, d.padding)
                /\ border_box(d) = expanded_by_sum(padding_box(d), d.border)
                /\ margin_box(d) = expanded_by_sum(border_box(d), d.margin)
                /\ margin_box(d).height = OuterHeight(d)

\* the indices of the styled children that are displayed, in order
Visible(style) ==
    LET shown == {i \in DOMAIN style.children : display(style.children[i]) # "None"}
    IN  [k \in 1..Cardinality(shown) |->
            CHOOSE i \in shown : Cardinality({j \in shown : j < i}) = k - 1]

\* the boxes of the styled children of a box: its children, with the children
\* of an AnonymousBlock in its place
Unwrapped(box) ==
    Flatten([k \in DOMAIN box.children |->
                IF Kind(box.children[k]) = "AnonymousBlock"
                THEN box.children[k].children
                ELSE <<box.children[k]>>])

\* C8: the children of a Block box are, in order, the boxes of its displayed
\* styled children: a Block box for each block child, standing alone, and the
\* Inline boxes of each maximal run of inline children together in one
\* AnonymousBlock; a child that is not displayed gives no box and ends no run.
C8_AnonymousRuns ==
    Built =>
        \A q \in Boxes :
            LET box == NodeAt(root_box, q)
                node == box.box_type.node
                style == NodeAt(styled_root, node)
                visible == Visible(style)
                flat == Unwrapped(box)
            IN  Kind(box) = "BlockNode" =>
                    /\ Len(flat) = Len(visible)
                    /\ \A k \in DOMAIN flat :
                          flat[k].box_type =
                              IF display(style.children[visible[k]]) = "Block"
                              THEN BlockNode(node \o <<visible[k]>>)
                              ELSE InlineNode(node \o <<visible[k]>>)
                    /\ \A k \in DOMAIN box.children :
                          /\ Kind(box.children[k]) # "InlineNode"
                          /\ Kind(box.children[k]) = "AnonymousBlock" =>
                                /\ box.children[k].children # <<>>
                                /\ \A j \in DOMAIN box.children[k].children :
                                      Kind(box.children[k].children[j]) = "InlineNode"
                          /\ (k > 1 /\ Kind(box.children[k]) = "AnonymousBlock") =>
                                Kind(box.children[k - 1]) # "AnonymousBlock"

\* C8 witness: a block whose children are inline, not displayed, inline: one
\* AnonymousBlock holds the boxes of the first and the third child
C8_Witness ==
    /\ pc = "built"
    /\ display(styled_root) = "Block"
    /\ Len(styled_root.children) = 3
    /\ display(styled_root.children[1]) = "Inline"
    /\ display(styled_root.children[2]) = "None"
    /\ display(styled_root.children[3]) = "Inline"
    /\ Len(root_box.children) = 1
    /\ Kind(root_box.children[1]) = "AnonymousBlock"
    /\ Len(root_box.children[1].children) = 2
    /\ root_box.children[1].children[2].box_type = InlineNode(<<3>>)

\* C9: no child of a Block box is an Inline box, an AnonymousBlock has at
\* least one child, and the children of an AnonymousBlock are Inline boxes.
C9_NoBareInline ==
    Built =>
        \A q \in Boxes :
            LET box == NodeAt(root_box, q)
            IN  /\ Kind(box) = "BlockNode" =>
                      \A k \in DOMAIN box.children :
                          Kind(box.children[k]) \in {"BlockNode", "AnonymousBlock"}
                /\ Kind(box) = "AnonymousBlock" =>
                      /\ Len(box.children) >= 1
                      /\ \A k \in DOMAIN box.children : Kind(box.children[k]) = "InlineNode"

\* C9 witness: a Block box with a Block child between two AnonymousBlock
\* children
C9_Witness ==
    /\ pc = "built"
    /\ Kind(root_box) = "BlockNode"
    /\ Len(root_box.children) = 3
    /\ Kind(root_box.children[1]) = "AnonymousBlock"
    /\ Kind(root_box.children[2]) = "BlockNode"
    /\ Kind(root_box.children[3]) = "AnonymousBlock"

\* C10: after layout, no box has a negative content width or height.
C10_NonNegative ==
    LaidOut =>
        \A q \in Boxes :
            /\ NodeAt(root_box, q).dimensions.content.width >= 0
            /\ NodeAt(root_box, q).dimensions.content.height >= 0

\* C10 witness: a laid out tree with a box of each kind, in which a Block box
\* is over-constrained and ends narrower than its specified width
C10_Witness ==
    /\ pc = "laid_out"
    /\ \E q \in Boxes : Kind(NodeAt(root_box, q)) = "InlineNode"
    /\ \E q \in Boxes : Kind(NodeAt(root_box, q)) = "AnonymousBlock"
    /\ \E q \in Boxes :
          LET box == NodeAt(root_box, q)
          IN  /\ Kind(box) = "BlockNode"
              /\ q # <<>>
              /\ box.dimensions.content.width < Pixels(get_style_node(box), "width")

\* the boxes of a layout tree in pre-order: a box, then the subtree of each of
\* its children in turn
RECURSIVE PreOrder(_)
PreOrder(box) == <<box>> \o Flatten([k \in DOMAIN box.children |-> PreOrder(box.children[k])])

\* the commands a box emits for itself
OwnCommands(box) == render_border(render_background(render_text(<<>>, box), box), box)

Painted == pc = "painted"

\* C11: the display list is the commands of the boxes in pre-order: the
\* commands a box emits for itself come before those of its descendants, and
\* the commands of the subtree of a child before those of the next child.
C11_PreOrder ==
    Painted =>
        LET boxes == PreOrder(root_box)
        IN  display_list = Flatten([k \in DOMAIN boxes |-> OwnCommands(boxes[k])])

\* C11 witness: a block with a background, a text child and a block child
\* after it: the SolidColor of the background comes first, the Text of the
\* child after it, and the commands of the second child after the Text
C11_Witness ==
    /\ Painted
    /\ Kind(root_box) = "BlockNode"
    /\ get_color(root_box, "background") # None
    /\ Len(html_tree.children) = 2
    /\ html_tree.children[1].data.type = "Text"
    /\ display(styled_root.children[2]) = "Block"
    /\ display_list[1] = SolidColor(get_color(root_box, "background")[1],
                                   border_box(root_box.dimensions))
    /\ \E i, j \in DOMAIN display_list :
          /\ 1 < i /\ i < j
          /\ display_list[i].kind = "Text"
          /\ display_list[j] = SolidColor(get_color(root_box.children[2], "background")[1],
                                         border_box(root_box.children[2].dimensions))

\* the styled nodes below the root that are not displayed
HiddenBelowRoot == {p \in Paths(styled_root) : p # <<>> /\ display(NodeAt(styled_root, p)) = "None"}

\* C13: layout_tree panics on a styled root whose display is none: the pass
\* stops there with no layout box and no display list; with any other root
\* the pass goes on and builds a tree of boxes, whatever is not displayed
\* below the root.
C13_RootNone ==
    /\ pc = "panicked" =>
          /\ display(styled_root) = "None"
          /\ IsPanic(root_box)
          /\ display_list = NotYet
          /\ ~ENABLED Next
    /\ Built =>
          /\ display(styled_root) # "None"
          /\ \A q \in Boxes : ~IsPanic(NodeAt(root_box, q))

\* C13 witness: the pass stopped on a root that is not displayed and has
\* children
C13_Witness ==
    /\ pc = "panicked"
    /\ display(styled_root) = "None"
    /\ Len(styled_root.children) >= 1

\* a pass that went on to the end with nodes that are not displayed below the root
C13_WitnessBelow ==
    /\ Painted
    /\ HiddenBelowRoot # {}

\* the positions of a character in a text, in increasing order
Positions(text, c) ==
    LET at == {i \in DOMAIN text : text[i] = c}
    IN  [k \in 1..Cardinality(at) |-> CHOOSE i \in at : Cardinality({j \in at : j < i}) = k - 1]

\* the text strictly between two positions, without the whitespace around it
Between(text, from, to) ==
    LET inside == {i \in (from + 1)..(to - 1) : text[i] \notin is_whitespace}
    IN  IF inside = {} THEN <<>>
        ELSE SubSeq(text, CHOOSE i \in inside : \A j \in inside : i <= j,
                          CHOOSE i \in inside : \A j \in inside : j <= i)

\* the value a text stands for: digits and px a length, # and three pairs of
\* hexadecimal digits a colour, any other word a keyword
TypedByText(t) ==
    IF t[1] \in Range(Digits)
    THEN Length(DecimalValue(SubSeq(t, 1, Len(t) - 2)), Px)
    ELSE IF t[1] = "#"
    THEN Color(16 * HexValue(t[2]) + HexValue(t[3]), 16 * HexValue(t[4]) + HexValue(t[5]),
               16 * HexValue(t[6]) + HexValue(t[7]), 255)
    ELSE Keyword(String(t))

\* the declarations written in the r-th pair of braces of a text: a name
\* before each colon, a value between the colon and the semicolon after it
WrittenDeclarations(text, r) ==
    LET open == Positions(text, "{")[r]
        close == Positions(text, "}")[r]
        colons == SelectSeq(Positions(text, ":"), LAMBDA i : open < i /\ i < close)
        semicolons == SelectSeq(Positions(text, ";"), LAMBDA i : open < i /\ i < close)
    IN  [k \in DOMAIN colons |->
            Declaration(String(Between(text, IF k = 1 THEN open ELSE semicolons[k - 1], colons[k])),
                        TypedByText(Between(text, colons[k], semicolons[k])))]

\* C14: css::parse of the text of a stylesheet returns a Rule for each pair of
\* braces, in the order of the text, with the declarations written between
\* the braces in their order, each with its name and with the value its text
\* stands for.
C14_TypedValues ==
    Parsed =>
        /\ ~IsPanic(stylesheet)
        /\ Len(stylesheet.rules) = Len(Positions(css_source, "{"))
        /\ \A r \in DOMAIN stylesheet.rules :
              stylesheet.rules[r].declarations = WrittenDeclarations(css_source, r)

\* C14 witness: the stylesheet of test_parse_css, parsed to its four declarations
C14_Witness ==
    /\ pc = "parsed"
    /\ css_source = TestSource
    /\ stylesheet.rules =
          <<Rule(<<TagSelector("div")>>,
                 <<Declaration("width", Length(100, Px)),
                   Declaration("height", Length(50, Px)),
                   Declaration("color", Color(255, 255, 255, 255)),
                   Declaration("background-color", Color(0, 51, 0, 255))>>)>>

\* the pixels the style gives an edge: the property of the side, else the
\* shorthand, else zero
StyleEdge(style, group, side) ==
    IF group = "border"
    THEN to_px(lookup(style, "border-" \o side \o "-width", "border-width", Zero))
    ELSE to_px(lookup(style, group \o "-" \o side, group, Zero))

Sides == {"left", "right", "top", "bottom"}

\* the box whose dimensions a box at a path other than the root's is laid
\* out in: its parent, or the parent of its parent when that is an
\* AnonymousBlock
RECURSIVE Container(_)
Container(q) ==
    LET up == SubSeq(q, 1, Len(q) - 1)
    IN  IF Kind(NodeAt(root_box, up)) = "AnonymousBlock" THEN Container(up) ELSE up

\* the x of the content of the containing block of the box at a path
ContainingX(q) ==
    IF q = <<>> THEN viewport.content.x
    ELSE NodeAt(root_box, Container(q)).dimensions.content.x

\* C15: an Inline box has, on all four sides, the margin, border and padding
\* its style gives through the lookup chain, and its content.x is the
\* containing block's content.x plus the left margin, border and padding of
\* the style, as for a Block box.
C15_InlineLikeBlock ==
    LaidOut =>
        \A q \in Boxes :
            LET box == NodeAt(root_box, q)
                d == box.dimensions
                style == get_style_node(box)
            IN  Kind(box) = "InlineNode" =>
                    /\ \A side \in Sides :
                          /\ d.margin[side] = StyleEdge(style, "margin", side)
                          /\ d.border[side] = StyleEdge(style, "border", side)
                          /\ d.padding[side] = StyleEdge(style, "padding", side)
                    /\ d.content.x = ContainingX(q) + StyleEdge(style, "margin", "left")
                                     + StyleEdge(style, "border", "left")
                                     + StyleEdge(style, "padding", "left")

\* C16: with underflow >= 0 and a width that is not auto, margin.right is the
\* pixels of margin-right (0 when it is auto) plus the whole underflow, and
\* content.width, margin.left and the borders and paddings are the pixels of
\* their specified values: margin.left gets nothing, auto or not.
C16_FixedWidth ==
    LaidOut =>
        LET d == root_box.dimensions
            u == Underflow(styled_root, viewport.content.width)
        IN  (u >= 0 /\ Quantity(styled_root, "width") # Auto) =>
                /\ d.margin.right = Pixels(styled_root, "margin_right") + u
                /\ \A q \in (Edges \cup {"width"}) \ {"margin_right"} :
                      Solved(d, q) = Pixels(styled_root, q)

\* C16 witness: a fixed width narrower than the containing block, with
\* margin-left and margin-right both auto: margin.right is the underflow and
\* margin.left is 0
C16_Witness ==
    /\ pc = "laid_out"
    /\ Quantity(styled_root, "width") = Length(1, Px)
    /\ Quantity(styled_root, "margin_left") = Auto
    /\ Quantity(styled_root, "margin_right") = Auto
    /\ Underflow(styled_root, viewport.content.width) = 2
    /\ root_box.dimensions.margin.right = 2
    /\ root_box.dimensions.margin.left = 0
    /\ root_box.dimensions.content.width = 1

\* the y of the content of the containing block of the box at a path
ContainingY(q) ==
    IF q = <<>> THEN viewport.content.y
    ELSE NodeAt(root_box, Container(q)).dimensions.content.y

\* the margin-box heights of the siblings before the box at a path
HeightBefore(q) ==
    IF q = <<>> THEN 0
    ELSE LET siblings == NodeAt(root_box, SubSeq(q, 1, Len(q) - 1)).children
         IN  SumSeq([k \in 1..(q[Len(q)] - 1) |-> OuterHeight(siblings[k].dimensions)])

\* the top of the margin box
MarginTop(d) == d.content.y - d.padding.top - d.border.top - d.margin.top

\* C17: a Block or Inline box has content.x = the containing block's
\* content.x + margin.left + border.left + padding.left, and content.y = the
\* containing block's content.y + the margin-box heights of the siblings
\* before it + margin.top + border.top + padding.top; so each child of a Block
\* box after the first has its margin box start where the margin box of the
\* child before it ends.
C17_Stacking ==
    LaidOut =>
        \A q \in Boxes :
            LET box == NodeAt(root_box, q)
                d == box.dimensions
            IN  /\ Kind(box) \in {"BlockNode", "InlineNode"} =>
                      /\ d.content.x = ContainingX(q) + d.margin.left + d.border.left
                                       + d.padding.left
                      /\ d.content.y = ContainingY(q) + HeightBefore(q) + d.margin.top
                                       + d.border.top + d.padding.top
                /\ Kind(box) = "BlockNode" =>
                      \A k \in 2..Len(box.children) :
                          MarginTop(box.children[k].dimensions) =
                              MarginTop(box.children[k - 1].dimensions)
                              + OuterHeight(box.children[k - 1].dimensions)

\* the border box: the content grown by the padding and then by the border
BorderBox(d) == expanded_by_sum(expanded_by_sum(d.content, d.padding), d.border)

\* a rectangle lies inside another
Inside(r, outer) ==
    /\ outer.x <= r.x /\ r.x + r.width <= outer.x + outer.width
    /\ outer.y <= r.y /\ r.y + r.height <= outer.y + outer.height

\* the box is the box of a text leaf
IsTextLeaf(box) ==
    /\ Kind(box) # "AnonymousBlock"
    /\ NodeAt(html_tree, get_style_node(box).node).data.type = "Text"

\* the colour the style of the box sets for a property, if it sets one
ColorSet(box, name) ==
    IF Kind(box) = "AnonymousBlock" THEN None
    ELSE LET v == value(get_style_node(box), name)
         IN  IF v # None /\ v[1].kind = "Color" THEN v ELSE None

\* the number of commands a box is to emit for itself
OwnCount(box) ==
    (IF IsTextLeaf(box) THEN 1 ELSE 0)
    + (IF ColorSet(box, "background") # None THEN 1 ELSE 0)
    + (IF ColorSet(box, "border-color") # None THEN 4 ELSE 0)

\* the commands are those a box with these dimensions is to emit for itself:
\* the Text, the background, the four borders, each only if it applies
OwnAsClaimed(cmds, box, bb) ==
    LET d == box.dimensions
        t == IF IsTextLeaf(box) THEN 1 ELSE 0
        b == IF ColorSet(box, "background") # None THEN 1 ELSE 0
        color == ColorSet(box, "border-color")
    IN  /\ Len(cmds) = OwnCount(box)
        /\ t = 1 =>
              cmds[1] = TextCommand(NodeAt(html_tree, get_style_node(box).node).data.body, bb)
        /\ b = 1 => cmds[t + 1] = SolidColor(ColorSet(box, "background")[1], bb)
        /\ color # None =>
              LET left == cmds[t + b + 1]
                  right == cmds[t + b + 2]
                  top == cmds[t + b + 3]
                  bottom == cmds[t + b + 4]
              IN  /\ \A e \in {left, right, top, bottom} :
                        /\ e.kind = "SolidColor"
                        /\ e.color = color[1]
                        /\ Inside(e.rect, bb)
                  /\ left.rect.x = bb.x /\ left.rect.width = d.border.left
                  /\ right.rect.x + right.rect.width = bb.x + bb.width
                  /\ right.rect.width = d.border.right
                  /\ top.rect.y = bb.y /\ top.rect.height = d.border.top
                  /\ bottom.rect.y + bottom.rect.height = bb.y + bb.height
                  /\ bottom.rect.height = d.border.bottom

\* C18: the commands of each box, in the order of the display list, are a
\* Text at the border box if the box is of a text leaf, then a SolidColor over
\* the border box if "background" is a colour, then, if "border-color" is a
\* colour, the left, right, top and bottom rectangles, each inside the border
\* box, flush with its edge and as thick as the border of that side; an
\* AnonymousBlock has no command.
C18_OwnCommands ==
    Painted =>
        LET boxes == PreOrder(root_box)
            before(k) == SumSeq([j \in 1..(k - 1) |-> OwnCount(boxes[j])])
        IN  /\ Len(display_list) = before(Len(boxes) + 1)
            /\ \A k \in DOMAIN boxes :
                  /\ Kind(boxes[k]) = "AnonymousBlock" => OwnCount(boxes[k]) = 0
                  /\ OwnAsClaimed(SubSeq(display_list, before(k) + 1, before(k) + OwnCount(boxes[k])),
                                  boxes[k], BorderBox(boxes[k].dimensions))

\* the tokens of a text: its longest pieces without whitespace
WhitespaceTokens(text) ==
    {SubSeq(text, ij[1], ij[2]) : ij \in
        {ij \in (DOMAIN text) \X (DOMAIN text) :
            /\ ij[1] <= ij[2]
            /\ \A k \in ij[1]..ij[2] : text[k] \notin is_whitespace
            /\ ij[1] = 1 \/ text[ij[1] - 1] \in is_whitespace
            /\ ij[2] = Len(text) \/ text[ij[2] + 1] \in is_whitespace}}

\* the element matches the selector, as claimed
MatchAsClaimed(elem, selector) ==
    /\ selector.tag_name = None \/ selector.tag_name = Some(elem.tag_name)
    /\ selector.id = None
       \/ ("id" \in DOMAIN elem.attrs /\ selector.id = Some(elem.attrs["id"]))
    /\ \A i \in DOMAIN selector.class :
          /\ "class" \in DOMAIN elem.attrs
          /\ selector.class[i] \in WhitespaceTokens(elem.attrs["class"])

\* C19: the declarations of a rule of one selector are applied to an element
\* exactly when the selector's tag is absent or the element's, its id is
\* absent or the element's, and each of its classes is a token of the
\* element's class attribute split at whitespace.
C19_Match ==
    Styled =>
        \A r \in DOMAIN stylesheet.rules :
            Len(stylesheet.rules[r].selectors) = 1 =>
                (value(styled_root, "width") # None
                    <=> MatchAsClaimed(html_tree.data, stylesheet.rules[r].selectors[1]))

\* C20: after layout the box of a text node is as wide as CharAdvance times
\* the number of characters of its text and LineHeight high, whatever the
\* characters are, those of more than one byte included.
C20_TextSize ==
    LaidOut =>
        \A q \in Boxes :
            LET box == NodeAt(root_box, q)
            IN  IsTextLeaf(box) =>
                    LET body == NodeAt(html_tree, get_style_node(box).node).data.body
                    IN  /\ box.dimensions.content.width = CharAdvance * Len(body)
                        /\ box.dimensions.content.height = LineHeight

\* the layout boxes that are AnonymousBlock boxes, by path
AnonymousBoxes == {q \in Boxes : Kind(NodeAt(root_box, q)) = "AnonymousBlock"}

\* C21: with a root that is displayed, neither layout nor the building of
\* the display list asks an AnonymousBlock box for its styled node: the only
\* panic of the pass is the one of a root that is not displayed, layout
\* leaves a tree of boxes and the painter a list of commands.
C21_NoAnonymousStyle ==
    /\ IsPanic(root_box) =>
          /\ root_box.panic = "Root node has display: none"
          /\ display(styled_root) = "None"
    /\ LaidOut =>
          /\ display(styled_root) # "None"
          /\ \A q \in Boxes : ~IsPanic(NodeAt(root_box, q))
    /\ Painted =>
          \A k \in DOMAIN display_list : display_list[k].kind \in {"SolidColor", "Text"}

\* C21 witness: the pass went to its end over a tree of boxes with an
\* AnonymousBlock that has children and is not the last box
C21_Witness ==
    /\ Painted
    /\ \E q \in AnonymousBoxes :
          /\ Len(NodeAt(root_box, q).children) >= 1
          /\ \E r \in Boxes : Len(r) = Len(q) /\ r # q

\* the pixels of a quantity as the style gives it
Given(q) == to_px(Quantity(styled_root, q))

\* the seven quantities of the style added up as the width solve does
GivenTotal == sum([i \in DOMAIN AbsorptionOrder |-> Given(AbsorptionOrder[i])])

\* the seven quantities of the box after the width solve, added up from the
\* left margin to the right margin
UsedWidth(d) ==
    sum(<<d.margin.left, d.border.left, d.padding.left, d.content.width, d.padding.right,
          d.border.right, d.margin.right>>)

\* the width of a block root was solved in a containing block of width >= 0,
\* from lengths that are not negative
WidthSolved ==
    /\ LaidOut
    /\ Kind(root_box) = "BlockNode"
    /\ ~lt(viewport.content.width, f64(0))
    /\ \A q \in Edges \cup {"width"} : ~lt(Given(q), f64(0))

\* a whole number below 2^MANTISSA_DIGITS: whole numbers below it add up exactly
WholeBelow(x) ==
    \/ numbers = "whole"
    \/ x.exp >= 0 /\ lt(x, [neg |-> FALSE, bits |-> <<1>>, exp |-> MANTISSA_DIGITS])

\* 2^-48: at most 20 additions and subtractions are rounded between the style
\* and the sum, each by at most 2^-53 of its result
RoundingBound == [neg |-> FALSE, bits |-> <<1>>, exp |-> 0 - 48]

\* |a - b|
Distance(a, b) == IF lt(a, b) THEN sub(b, a) ELSE sub(a, b)

\* C22 as the spec has it: in a containing block of content width >= 0 and
\* with lengths that are not negative, the width solve leaves margin.left +
\* border.left + padding.left + content.width + padding.right + border.right +
\* margin.right equal to the content width of the containing block exactly:
\* over-constrained, with width auto and with a fixed width.
C22_WidthSum == WidthSolved => UsedWidth(root_box.dimensions) = viewport.content.width

\* C22: in a containing block of content width >= 0 and with lengths that
\* are not negative, the width solve leaves the sum of the seven quantities
\* equal to the content width of the containing block when the lengths, their
\* sum and the content width are whole numbers below 2^53; in binary64 the sum
\* and the content width are never further apart than 2^-48 of the content
\* width plus the lengths.
C22_WidthSumRounded ==
    WidthSolved =>
        /\ (/\ \A q \in Edges \cup {"width"} : WholeBelow(Given(q))
            /\ WholeBelow(GivenTotal)
            /\ WholeBelow(viewport.content.width))
               => UsedWidth(root_box.dimensions) = viewport.content.width
        /\ numbers = "binary64" =>
               ~gt(Distance(UsedWidth(root_box.dimensions), viewport.content.width),
                   mul(RoundingBound, add(viewport.content.width, GivenTotal)))

\* C22 witness: margins with a fraction and a width that is too wide by a
\* whole number; the deficit takes the right margin, the left margin and part
\* of the width, and the sum is not the content width of the containing block
C22_Witness ==
    /\ pc = "laid_out"
    /\ numbers = "binary64"
    /\ Given("margin_left").exp < 0
    /\ Given("margin_right").exp < 0
    /\ lt(sub(viewport.content.width, GivenTotal), f64(0))
    /\ root_box.dimensions.margin.right = f64(0)
    /\ root_box.dimensions.margin.left = f64(0)
    /\ gt(root_box.dimensions.content.width, f64(0))
    /\ lt(root_box.dimensions.content.width, Given("width"))
    /\ UsedWidth(root_box.dimensions) # viewport.content.width

=============================================================================
